---- MODULE Spec2Model ----
(***************************************************************************)
(* A model of the pairlock crate: PairLock<T> (src/pairlock.rs), a         *)
(* reader-writer lock with wait-free reads over two slots, and ArcCell<T>  *)
(* (src/arccell.rs), the same protocol specialised to Arc<T>.  A behaviour *)
(* is about one cell of either type, shared by threads that are arbitrary  *)
(* clients: on a PairLock each may enter views, read the viewed value      *)
(* field by field, call update / try_update / set, write through a guard,  *)
(* drop or cancel it; on an ArcCell each may call get and set.  Every      *)
(* access to shared memory is one step.                                    *)
(***************************************************************************)
EXTENDS Integers, Sequences, FiniteSets, TLC

\* ---------------------------------------------------------------- bounds
NumThreads == 2         \* client threads
MaxNest == 1            \* views a thread may have open at once
Width == 3              \* bits of a usize counter (arithmetic is mod 2^Width)
MaxPubs == 2            \* publications (flips) explored in one behaviour
MaxVal == 3             \* payloads written in one behaviour are 2..MaxVal
MaxReentry == 2         \* views open at once where views are re-entered

\* ------------------------------------------------------- program constants
MAX_UPDATE_SPINS == 7

Threads == 1..NumThreads
Slots == {0, 1}

\* (mutant) counters one bit narrower than the bound on readers assumes
Modulus_narrow == 2 ^ (Width - 1)

\* usize arithmetic: wrapping add, !0, x & 1
Modulus == 2 ^ Width
\* (mutant) an addition that also sets bit 0
WrapAdd_odd(x, y) == (x + y + 1) % Modulus

\* (mutant) fetch_add(1): a reader counted in bit 0
WrapAdd_single(x, y) == (x + 1) % Modulus

WrapAdd(x, y) == (x + y) % Modulus
AllOnes == Modulus - 1
Bit0(x) == x % 2

\* A stored value T is a pair of fields, like get_big's ([u64;4], u64):
\* it is read and written one field at a time.
Whole(v) == <<v, v>>

VARIABLES
    cell,             \* the type of the cell: "PairLock" or "ArcCell"
    reads_active,     \* PairLock.reads_active, ArcCell.reads_current
    finished_reads,   \* finished_reads[0..1] of either
    values,           \* PairLock.values[0..1], ArcCell.arcs[0..1]
    inactive_reads,   \* datum of the Mutex PairLock.inactive_reads,
                      \* ArcCell.prev_reads
    locked,           \* whether that Mutex is held
    poisoned,         \* the poison flag of that Mutex
    strong,           \* ArcCell: strong count of every Arc allocation
    pc,               \* per thread: where it is
    frames,           \* per thread: slots of its open views, innermost last
    got,              \* per thread: fields its running view has read
    holds,            \* per thread: it owns a live UpdateGuard
    spins,            \* per thread: failed check_inactive calls of this round
    arg,              \* per thread: value in flight (set / *guard = v)
    active_reads,     \* per thread: local of UpdateGuard::drop
    fresh,            \* next payload a client writes (no payload is reused)
    start,            \* history, per thread: publications that had returned
                      \* when its running view started
    given,            \* history, per thread: the value handed to set or
                      \* last written through its guard
    todo,             \* per thread: the calls its program still makes
    pubs,             \* history: <<constructor's inactive, constructor's
                      \* active, then every value made active by a flip>>
    kept,             \* history: the value last written whole through a
                      \* guard since the last flip, <<>> if there is none
    touched,          \* history: an UpdateGuard's user wrote to the inactive
                      \* slot since the last flip
    flipped_at,       \* history: what the active counter was when the slot
                      \* that is inactive now stopped being active (before
                      \* the first flip: the constructor's drain target)
    cur,              \* memory model, per thread: what happens-before its
                      \* next step (a view)
    acq,              \* memory model, per thread: views of the messages its
                      \* Relaxed loads read, taken in at the next fence
    rel,              \* memory model, per thread: its view at its last fence
    sc,               \* memory model: the view of the last fence(SeqCst)
    mview,            \* memory model: the view the last unlock of the Mutex
                      \* released
    raview,           \* memory model: the view of the newest message of
                      \* reads_active / reads_current
    fhist,            \* memory model: per slot, the views of the messages
                      \* of finished_reads[slot] in modification order
    vhist,            \* memory model: per slot, the values written to
                      \* values[slot] / arcs[slot], in order
    lastread          \* history: per slot and thread, the thread's count of
                      \* reads at its last read of the slot

shared == <<cell, reads_active, finished_reads, values, inactive_reads, locked, poisoned, strong>>
local == <<pc, frames, got, holds, spins, arg, active_reads>>
ghost == <<fresh, start, given, todo, pubs, touched, kept, flipped_at>>
weak == <<cur, acq, rel, sc, mview, raview, fhist, vhist, lastread>>
vars == <<shared, local, ghost, weak>>

\* Publications that have returned: a flip whose guard drop has not yet
\* stored the drain target and unlocked is still in progress.
Storing == {"drop_store", "set_store", "aset_store", "unwind_store"}
PubsDone == Len(pubs) - (IF \E t \in Threads : pc[t] \in Storing THEN 1 ELSE 0)

\* All reservations currently outstanding, over all threads.
Outstanding == LET RECURSIVE Sum(_)
                   Sum(S) == IF S = {} THEN 0
                             ELSE LET t == CHOOSE x \in S : TRUE
                                  IN Len(frames[t]) + Sum(S \ {t})
               IN Sum(Threads)

\* strong counts the live owners of every stored object: the slots that
\* hold it, the calls that carry it and the handles that clients have.
\* A client makes one more instance of object p, or the first
Alloc(p) == IF p \in DOMAIN strong THEN [strong EXCEPT ![p] = @ + 1]
            ELSE (p :> 1) @@ strong
\* (mutant) the object is dropped twice
Release_twice(p) == [strong EXCEPT ![p] = @ - 2]

\* an owner of object p drops it
Release(p) == [strong EXCEPT ![p] = @ - 1]

\* (mutant) the second slot's counter and the drain target start at 1
New_from_one(active, inactive) ==
    /\ cell = "PairLock"
    /\ strong = IF active = inactive THEN (active[1] :> 2)
                ELSE (active[1] :> 1) @@ (inactive[1] :> 1)
    /\ reads_active = 0
    /\ finished_reads = [s \in Slots |-> IF s = 0 THEN 0 ELSE 1]
    /\ values = [s \in Slots |-> IF s = 0 THEN active ELSE inactive]
    /\ inactive_reads = 1
    /\ locked = FALSE
    /\ poisoned = FALSE

\* PairLock::new(active, inactive)
New(active, inactive) ==
    /\ cell = "PairLock"
    /\ strong = IF active = inactive THEN (active[1] :> 2)
                ELSE (active[1] :> 1) @@ (inactive[1] :> 1)
    /\ reads_active = 0
    /\ finished_reads = [s \in Slots |-> IF s = 0 THEN 0 ELSE AllOnes]
    /\ values = [s \in Slots |-> IF s = 0 THEN active ELSE inactive]
    /\ inactive_reads = AllOnes
    /\ locked = FALSE
    /\ poisoned = FALSE

\* A view says how much of the history of each location happens-before a
\* point of a thread: f[s] and v[s] are places in the histories of
\* finished_reads[s] and of the slot s, r[u] counts the reads of the slots
\* that thread u has made.
View0 ==
    [f |-> [s \in Slots |-> 1], v |-> [s \in Slots |-> 1], r |-> [u \in Threads |-> 0]]
Max(a, b) == IF a >= b THEN a ELSE b
Join(a, b) ==
    [f |-> [s \in Slots |-> Max(a.f[s], b.f[s])],
     v |-> [s \in Slots |-> Max(a.v[s], b.v[s])],
     r |-> [u \in Threads |-> Max(a.r[u], b.r[u])]]

\* The constructor's writes happen-before everything the threads do: the
\* cell is shared after it is built.
Synced ==
    /\ cur = [t \in Threads |-> View0]
    /\ acq = [t \in Threads |-> View0]
    /\ rel = [t \in Threads |-> View0]
    /\ sc = View0
    /\ mview = View0
    /\ raview = View0
    /\ fhist = [s \in Slots |-> <<View0>>]
    /\ vhist = [s \in Slots |-> <<values[s]>>]
    /\ lastread = [s \in Slots |-> [u \in Threads |-> 0]]

Idle ==
    /\ Synced
    /\ pc = [t \in Threads |-> "idle"]
    /\ frames = [t \in Threads |-> <<>>]
    /\ got = [t \in Threads |-> <<>>]
    /\ holds = [t \in Threads |-> FALSE]
    /\ spins = [t \in Threads |-> 0]
    /\ arg = [t \in Threads |-> <<>>]
    /\ active_reads = [t \in Threads |-> 0]
    /\ start = [t \in Threads |-> 0]
    /\ given = [t \in Threads |-> <<>>]
    /\ fresh = 2
    /\ touched = FALSE
    /\ kept = <<>>
    /\ flipped_at = inactive_reads

\* A client program is a sequence of calls <<name, payload>>; the program
\* <<AnyCall>> makes any call at any time, with payloads never used before.
AnyCall == <<"*", 0>>
Does(t, op) ==
    /\ todo[t] # <<>>
    /\ \/ Head(todo[t]) = AnyCall /\ UNCHANGED todo
       \/ Head(todo[t])[1] = op /\ todo' = [todo EXCEPT ![t] = Tail(@)]
Payload(t) == IF Head(todo[t]) = AnyCall THEN fresh ELSE Head(todo[t])[2]
Taken(t) == IF Head(todo[t]) = AnyCall THEN fresh + 1 ELSE fresh
\* arbitrary clients stop writing when the payloads are used up
Payable(t) == Head(todo[t]) = AnyCall => fresh <= MaxVal

\* ArcCell::new(init): both slots hold the same Arc, one strong count each
ArcNew(init, reads_start) ==
    /\ cell = "ArcCell"
    /\ strong = (init :> 2)
    /\ reads_active = reads_start
    /\ finished_reads = [s \in Slots |-> IF s = 0 THEN reads_start ELSE reads_start + 1]
    /\ values = [s \in Slots |-> <<init>>]
    /\ inactive_reads = reads_start + 1
    /\ locked = FALSE
    /\ poisoned = FALSE

\* reads_start = if cfg!(debug_assertions) {!0<<2} else {0}
ReadsStart == {(AllOnes * 4) % Modulus, 0}

\* The cell is PairLock::new(1, 0), as in tests::basic, or
\* ArcCell::new(Arc::new(1)) of a debug or a release build, and is shared by
\* threads that make arbitrary calls.
Init ==
    /\ \/ /\ New(Whole(1), Whole(0))
          /\ pubs = <<[val |-> Whole(0), set |-> <<>>], [val |-> Whole(1), set |-> <<>>]>>
       \/ /\ \E reads_start \in ReadsStart : ArcNew(1, reads_start)
          /\ pubs = <<[val |-> <<1>>, set |-> <<>>], [val |-> <<1>>, set |-> <<>>]>>
    /\ todo = [t \in Threads |-> <<AnyCall>>]
    /\ Idle

\* ------------------------------------------------------------------ view
Top(t) == frames[t][Len(frames[t])]

\* (mutant) the view takes the other slot: slot = !active & 1
ViewEnter_other(t) ==
    /\ cell = "PairLock"
    /\ pc[t] = "idle"
    /\ Does(t, "view")
    /\ Len(frames[t]) < MaxNest
    /\ Outstanding + 1 < 2 ^ (Width - 1)
    /\ reads_active' = WrapAdd(reads_active, 2)
    /\ frames' = [frames EXCEPT ![t] = Append(@, 1 - Bit0(reads_active))]
    /\ pc' = [pc EXCEPT ![t] = "view"]
    /\ start' = [start EXCEPT ![t] = PubsDone]
    /\ UNCHANGED <<finished_reads, values, inactive_reads, locked>>
    /\ UNCHANGED <<cell, strong, poisoned>>
    /\ UNCHANGED <<got, holds, spins, arg, active_reads>>
    /\ UNCHANGED <<fresh, given, pubs, touched, kept, flipped_at>>
    /\ UNCHANGED weak

\* let active = self.reads_active.fetch_add(2, SeqCst); let slot = active & 1;
ViewEnter(t) ==
    /\ cell = "PairLock"
    /\ pc[t] = "idle"
    /\ Does(t, "view")
    /\ Len(frames[t]) < MaxNest
    /\ Outstanding + 1 < 2 ^ (Width - 1)
    /\ reads_active' = WrapAdd(reads_active, 2)
    /\ frames' = [frames EXCEPT ![t] = Append(@, Bit0(reads_active))]
    /\ pc' = [pc EXCEPT ![t] = "view"]
    /\ start' = [start EXCEPT ![t] = PubsDone]
    /\ UNCHANGED <<finished_reads, values, inactive_reads, locked>>
    /\ UNCHANGED <<cell, strong, poisoned>>
    /\ UNCHANGED <<got, holds, spins, arg, active_reads>>
    /\ UNCHANGED <<fresh, given, pubs, touched, kept, flipped_at>>
    /\ UNCHANGED weak

\* (mutant) the read of the slot waits until no writer has the mutex
ViewRead_waiting(t) ==
    /\ pc[t] = "view"
    /\ ~locked
    /\ LET g == Append(got[t], values[Top(t)][Len(got[t]) + 1])
       IN /\ got' = [got EXCEPT ![t] = g]
          /\ pc' = [pc EXCEPT ![t] = IF Len(g) = 2 THEN "viewed" ELSE "view"]
    /\ UNCHANGED shared
    /\ UNCHANGED <<frames, holds, spins, arg, active_reads>>
    /\ UNCHANGED ghost
    /\ UNCHANGED weak

\* viewer(&*self.values[slot].get()): the closure reads the next field
ViewRead(t) ==
    /\ pc[t] = "view"
    /\ LET g == Append(got[t], values[Top(t)][Len(got[t]) + 1])
       IN /\ got' = [got EXCEPT ![t] = g]
          /\ pc' = [pc EXCEPT ![t] = IF Len(g) = 2 THEN "viewed" ELSE "view"]
    /\ UNCHANGED shared
    /\ UNCHANGED <<frames, holds, spins, arg, active_reads>>
    /\ UNCHANGED ghost
    /\ UNCHANGED weak

\* the closure has its result and goes on to something else inside the view
ViewBody(t) ==
    /\ pc[t] = "viewed"
    /\ pc' = [pc EXCEPT ![t] = "idle"]
    /\ got' = [got EXCEPT ![t] = <<>>]
    /\ start' = [start EXCEPT ![t] = 0]
    /\ UNCHANGED shared
    /\ UNCHANGED <<frames, holds, spins, arg, active_reads>>
    /\ UNCHANGED <<fresh, given, todo, pubs, touched, kept, flipped_at>>
    /\ UNCHANGED weak

\* get_clone: self.view(|v| v.clone() ), the closure clones what it read
GetClone(t) ==
    /\ pc[t] = "viewed"
    /\ strong' = [strong EXCEPT ![got[t][1]] = @ + 1]
    /\ pc' = [pc EXCEPT ![t] = "cloned"]
    /\ UNCHANGED <<cell, reads_active, finished_reads, values, inactive_reads, locked, poisoned>>
    /\ UNCHANGED <<frames, got, holds, spins, arg, active_reads>>
    /\ UNCHANGED ghost
    /\ UNCHANGED weak

\* (mutant) the view ends without Releaser::drop
ViewExit_forgets(t) ==
    /\ pc[t] \in {"idle", "viewed"}
    /\ frames[t] # <<>>
    /\ Does(t, "exit")
    /\ frames' = [frames EXCEPT ![t] = SubSeq(@, 1, Len(@) - 1)]
    /\ pc' = [pc EXCEPT ![t] = "idle"]
    /\ got' = [got EXCEPT ![t] = <<>>]
    /\ start' = [start EXCEPT ![t] = 0]
    /\ UNCHANGED shared
    /\ UNCHANGED <<holds, spins, arg, active_reads>>
    /\ UNCHANGED <<fresh, given, pubs, touched, kept, flipped_at>>
    /\ UNCHANGED weak

\* Releaser::drop: fence(SeqCst); self.0.fetch_add(2, Relaxed); the clone
\* that get_clone's closure made is returned to the caller
ViewExit(t) ==
    /\ pc[t] \in {"idle", "viewed", "cloned"}
    /\ frames[t] # <<>>
    /\ Does(t, "exit")
    /\ finished_reads' = [finished_reads EXCEPT ![Top(t)] = WrapAdd(@, 2)]
    /\ frames' = [frames EXCEPT ![t] = SubSeq(@, 1, Len(@) - 1)]
    /\ pc' = [pc EXCEPT ![t] = IF pc[t] = "cloned" THEN "get_ret" ELSE "idle"]
    /\ got' = [got EXCEPT ![t] = IF pc[t] = "cloned" THEN @ ELSE <<>>]
    /\ start' = [start EXCEPT ![t] = IF pc[t] = "cloned" THEN @ ELSE 0]
    /\ UNCHANGED <<reads_active, values, inactive_reads, locked>>
    /\ UNCHANGED <<cell, strong, poisoned>>
    /\ UNCHANGED <<holds, spins, arg, active_reads>>
    /\ UNCHANGED <<fresh, given, pubs, touched, kept, flipped_at>>
    /\ UNCHANGED weak

\* ------------------------------------------------------- acquiring a guard
\* A new writer call is started only while the history has room.
Room == Len(pubs) < MaxPubs + 2

\* (mutant) the drain check waits for the readers of both slots
check_inactive_all(guard) == finished_reads[Bit0(guard)] = guard /\ Outstanding = 0

\* (mutant) the drain check is skipped
check_inactive_skipped(guard) == TRUE

\* check_inactive: self.finished_reads[slot].load(Relaxed) == *inactive_reads
check_inactive(guard) == finished_reads[Bit0(guard)] = guard

\* Mutex::lock / Mutex::try_lock succeed only on a free mutex
\* (mutant) a mutex that never refuses
MutexFree_always == TRUE

MutexFree == ~locked

\* What lock() and try_lock() give on a free mutex: Ok(guard), or
\* Err(Poisoned(guard)) once a thread has panicked while it held the mutex.
LockResult == IF poisoned THEN "Poisoned" ELSE "Ok"

\* (mutant) .unwrap(): a poisoned mutex gives no guard
Guarded_unwrap(result) == result = "Ok"

\* update: .unwrap_or_else(|poisoned| poisoned.into_inner() );
\* try_update: Ok(guard) => guard, Err(Poisoned(poisoned)) => poisoned.into_inner()
Guarded(result) == result \in {"Ok", "Poisoned"}

\* update() is called: the thread goes to lock the mutex
Update(t) ==
    /\ cell = "PairLock"
    /\ pc[t] = "idle"
    /\ Does(t, "update")
    /\ Room
    /\ pc' = [pc EXCEPT ![t] = "upd_lock"]
    /\ UNCHANGED shared
    /\ UNCHANGED <<frames, got, holds, spins, arg, active_reads>>
    /\ UNCHANGED <<fresh, start, given, pubs, touched, kept, flipped_at>>
    /\ UNCHANGED weak

\* set(value) is called
Set(t) ==
    /\ cell = "PairLock"
    /\ pc[t] = "idle"
    /\ Does(t, "set")
    /\ Room
    /\ Payable(t)
    /\ pc' = [pc EXCEPT ![t] = "set_lock"]
    /\ arg' = [arg EXCEPT ![t] = Whole(Payload(t))]
    /\ given' = [given EXCEPT ![t] = Whole(Payload(t))]
    /\ fresh' = Taken(t)
    /\ strong' = Alloc(Payload(t))
    /\ UNCHANGED <<cell, reads_active, finished_reads, values, inactive_reads, locked, poisoned>>
    /\ UNCHANGED <<frames, got, holds, spins, active_reads>>
    /\ UNCHANGED <<start, pubs, touched, kept, flipped_at>>
    /\ UNCHANGED weak

\* let mut inactive_reads = self.inactive_reads.lock()  (first, or again
\* after yield_now()); a thread that holds the mutex itself never gets it
Lock(t) ==
    /\ pc[t] \in {"upd_lock", "set_lock"}
    /\ MutexFree
    /\ Guarded(LockResult)
    /\ locked' = TRUE
    /\ pc' = [pc EXCEPT ![t] = IF pc[t] = "upd_lock" THEN "upd_spin" ELSE "set_spin"]
    /\ spins' = [spins EXCEPT ![t] = 0]
    /\ UNCHANGED <<reads_active, finished_reads, values, inactive_reads>>
    /\ UNCHANGED <<cell, strong, poisoned>>
    /\ UNCHANGED <<frames, got, holds, arg, active_reads>>
    /\ UNCHANGED ghost
    /\ UNCHANGED weak

\* (mutant) the writer yields without drop(inactive_reads)
Spin_keeps(t) ==
    /\ pc[t] \in {"upd_spin", "set_spin"}
    /\ IF check_inactive(inactive_reads)
       THEN /\ pc' = [pc EXCEPT ![t] = IF pc[t] = "upd_spin" THEN "idle" ELSE "replace"]
            /\ holds' = [holds EXCEPT ![t] = TRUE]
            /\ spins' = [spins EXCEPT ![t] = 0]
            /\ UNCHANGED locked
       ELSE IF spins[t] + 1 < MAX_UPDATE_SPINS
       THEN /\ spins' = [spins EXCEPT ![t] = @ + 1]
            /\ UNCHANGED <<pc, holds, locked>>
       ELSE /\ UNCHANGED locked
            /\ spins' = [spins EXCEPT ![t] = 0]
            /\ pc' = [pc EXCEPT ![t] = IF pc[t] = "upd_spin" THEN "upd_lock" ELSE "set_lock"]
            /\ UNCHANGED holds
    /\ UNCHANGED <<reads_active, finished_reads, values, inactive_reads>>
    /\ UNCHANGED <<cell, strong, poisoned>>
    /\ UNCHANGED <<frames, got, arg, active_reads>>
    /\ UNCHANGED ghost
    /\ UNCHANGED weak

\* one round of `for _ in 0..MAX_UPDATE_SPINS`: Ok returns the guard, the
\* last Err drops the mutex guard and yields, to lock again
Spin(t) ==
    /\ pc[t] \in {"upd_spin", "set_spin"}
    /\ IF check_inactive(inactive_reads)
       THEN /\ pc' = [pc EXCEPT ![t] = IF pc[t] = "upd_spin" THEN "idle" ELSE "replace"]
            /\ holds' = [holds EXCEPT ![t] = TRUE]
            /\ spins' = [spins EXCEPT ![t] = 0]
            /\ UNCHANGED locked
       ELSE IF spins[t] + 1 < MAX_UPDATE_SPINS
       THEN /\ spins' = [spins EXCEPT ![t] = @ + 1]
            /\ UNCHANGED <<pc, holds, locked>>
       ELSE /\ locked' = FALSE
            /\ spins' = [spins EXCEPT ![t] = 0]
            /\ pc' = [pc EXCEPT ![t] = IF pc[t] = "upd_spin" THEN "upd_lock" ELSE "set_lock"]
            /\ UNCHANGED holds
    /\ UNCHANGED <<reads_active, finished_reads, values, inactive_reads>>
    /\ UNCHANGED <<cell, strong, poisoned>>
    /\ UNCHANGED <<frames, got, arg, active_reads>>
    /\ UNCHANGED ghost
    /\ UNCHANGED weak

\* try_update: self.inactive_reads.try_lock()
TryUpdate(t) ==
    /\ cell = "PairLock"
    /\ pc[t] = "idle"
    /\ Does(t, "try_update")
    /\ Room
    /\ IF MutexFree
       THEN /\ Guarded(LockResult)
            /\ locked' = TRUE
            /\ pc' = [pc EXCEPT ![t] = "try_check"]
       ELSE /\ pc' = [pc EXCEPT ![t] = "OtherUpdate"]
            /\ UNCHANGED locked
    /\ UNCHANGED <<reads_active, finished_reads, values, inactive_reads>>
    /\ UNCHANGED <<cell, strong, poisoned>>
    /\ UNCHANGED <<frames, got, holds, spins, arg, active_reads>>
    /\ UNCHANGED <<fresh, start, given, pubs, touched, kept, flipped_at>>
    /\ UNCHANGED weak

\* (mutant) InactiveReads is returned with the mutex still locked
TryCheck_keeps(t) ==
    /\ pc[t] = "try_check"
    /\ IF check_inactive(inactive_reads)
       THEN /\ holds' = [holds EXCEPT ![t] = TRUE]
            /\ pc' = [pc EXCEPT ![t] = "idle"]
       ELSE /\ pc' = [pc EXCEPT ![t] = "InactiveReads"]
            /\ UNCHANGED holds
    /\ UNCHANGED shared
    /\ UNCHANGED <<frames, got, spins, arg, active_reads>>
    /\ UNCHANGED ghost
    /\ UNCHANGED weak

\* try_update: self.check_inactive(guard).map_err(|_| InactiveReads)
TryCheck(t) ==
    /\ pc[t] = "try_check"
    /\ IF check_inactive(inactive_reads)
       THEN /\ holds' = [holds EXCEPT ![t] = TRUE]
            /\ pc' = [pc EXCEPT ![t] = "idle"]
            /\ UNCHANGED locked
       ELSE /\ locked' = FALSE
            /\ pc' = [pc EXCEPT ![t] = "InactiveReads"]
            /\ UNCHANGED holds
    /\ UNCHANGED <<reads_active, finished_reads, values, inactive_reads>>
    /\ UNCHANGED <<cell, strong, poisoned>>
    /\ UNCHANGED <<frames, got, spins, arg, active_reads>>
    /\ UNCHANGED ghost
    /\ UNCHANGED weak

\* the caller has seen what try_update or set returned, and drops it
Return(t) ==
    /\ pc[t] \in {"OtherUpdate", "InactiveReads", "set_ret"}
    /\ pc' = [pc EXCEPT ![t] = "idle"]
    /\ arg' = [arg EXCEPT ![t] = <<>>]
    /\ strong' = IF pc[t] = "set_ret" THEN Release(arg[t][1]) ELSE strong
    /\ UNCHANGED <<cell, reads_active, finished_reads, values, inactive_reads, locked, poisoned>>
    /\ UNCHANGED <<frames, got, holds, spins, active_reads>>
    /\ UNCHANGED ghost
    /\ UNCHANGED weak

\* ------------------------------------------------------------ UpdateGuard
\* (mutant) the guard addresses the active slot
GuardSlot_active == 1 - Bit0(inactive_reads)

\* Deref / DerefMut: slot = *self.guard & 1
GuardSlot == Bit0(inactive_reads)
deref == values[GuardSlot]
\* (mutant) active without the negation: the guard's own slot
active_own == values[Bit0(inactive_reads)]

\* UpdateGuard::active: other_slot = (!*this.guard) & 1
active == values[Bit0(AllOnes - inactive_reads)]
\* UpdateGuard::both
both == <<deref, active>>

\* the field of the guarded slot that a write in progress stores next
NextField(t) == IF pc[t] \in {"write", "replace"} THEN 1 ELSE 2

\* *guard = value, stored field by field
GuardWrite(t) ==
    /\ pc[t] = "idle"
    /\ holds[t]
    /\ Does(t, "write")
    /\ Payable(t)
    /\ pc' = [pc EXCEPT ![t] = "write"]
    /\ arg' = [arg EXCEPT ![t] = Whole(Payload(t))]
    /\ given' = [given EXCEPT ![t] = Whole(Payload(t))]
    /\ fresh' = Taken(t)
    /\ strong' = Alloc(Payload(t))
    /\ UNCHANGED <<cell, reads_active, finished_reads, values, inactive_reads, locked, poisoned>>
    /\ UNCHANGED <<frames, got, holds, spins, active_reads>>
    /\ UNCHANGED <<start, pubs, touched, kept, flipped_at>>
    /\ UNCHANGED weak

\* the assignment drops the value that was in the slot and moves the new
\* one in
WriteField(t) ==
    /\ pc[t] \in {"write", "write2"}
    /\ values' = [values EXCEPT ![GuardSlot][NextField(t)] = arg[t][NextField(t)]]
    /\ pc' = [pc EXCEPT ![t] = IF pc[t] = "write" THEN "write2" ELSE "idle"]
    /\ arg' = [arg EXCEPT ![t] = IF pc[t] = "write" THEN @ ELSE <<>>]
    /\ touched' = TRUE
    /\ kept' = IF pc[t] = "write" THEN <<>> ELSE arg[t]
    /\ strong' = IF pc[t] = "write" THEN Release(values[GuardSlot][1]) ELSE strong
    /\ UNCHANGED <<reads_active, finished_reads, inactive_reads, locked>>
    /\ UNCHANGED <<cell, poisoned>>
    /\ UNCHANGED <<frames, got, holds, spins, active_reads>>
    /\ UNCHANGED <<fresh, start, given, todo, pubs, flipped_at>>
    /\ UNCHANGED weak

\* set: mem::replace(&mut *guard, value), field by field; the displaced
\* value is collected in place of the argument
ReplaceField(t) ==
    /\ pc[t] \in {"replace", "replace2"}
    /\ values' = [values EXCEPT ![GuardSlot][NextField(t)] = arg[t][NextField(t)]]
    /\ arg' = [arg EXCEPT ![t][NextField(t)] = values[GuardSlot][NextField(t)]]
    /\ pc' = [pc EXCEPT ![t] = IF pc[t] = "replace" THEN "replace2" ELSE "set_drop"]
    /\ UNCHANGED <<reads_active, finished_reads, inactive_reads, locked>>
    /\ UNCHANGED <<cell, strong, poisoned>>
    /\ UNCHANGED <<frames, got, holds, spins, active_reads>>
    /\ UNCHANGED ghost
    /\ UNCHANGED weak

\* UpdateGuard::drop, first half:
\* let active_reads = self.pl.reads_active.swap(inactive_reads, SeqCst)
\* (mutant) the swap stores back what it read: no flip
Flipped_lost == reads_active

\* the value the swap stores into reads_active
Flipped == inactive_reads

DropSwap(t) ==
    /\ holds[t]
    /\ pc[t] \in {"idle", "set_drop"}
    /\ pc[t] = "idle" => Does(t, "drop")
    /\ pc[t] = "set_drop" => UNCHANGED todo
    /\ active_reads' = [active_reads EXCEPT ![t] = reads_active]
    /\ reads_active' = Flipped
    /\ pc' = [pc EXCEPT ![t] = IF pc[t] = "idle" THEN "drop_store" ELSE "set_store"]
    /\ pubs' = Append(pubs, [val |-> deref, set |-> given[t]])
    /\ flipped_at' = reads_active
    /\ UNCHANGED <<finished_reads, values, inactive_reads, locked>>
    /\ UNCHANGED <<cell, strong, poisoned>>
    /\ UNCHANGED <<frames, got, holds, spins, arg>>
    /\ UNCHANGED <<fresh, start, given, touched, kept>>
    /\ UNCHANGED weak

\* (mutant) the drop unlocks without *self.guard = active_reads
DropStore_keeps(t) ==
    /\ pc[t] \in {"drop_store", "set_store"}
    /\ UNCHANGED inactive_reads
    /\ locked' = FALSE
    /\ holds' = [holds EXCEPT ![t] = FALSE]
    /\ pc' = [pc EXCEPT ![t] = IF pc[t] = "set_store" THEN "set_ret" ELSE "idle"]
    /\ active_reads' = [active_reads EXCEPT ![t] = 0]
    /\ given' = [given EXCEPT ![t] = <<>>]
    /\ touched' = FALSE
    /\ kept' = <<>>
    /\ UNCHANGED <<reads_active, finished_reads, values>>
    /\ UNCHANGED <<cell, strong, poisoned>>
    /\ UNCHANGED <<frames, got, spins, arg>>
    /\ UNCHANGED <<fresh, start, todo, pubs, flipped_at>>
    /\ UNCHANGED weak

\* UpdateGuard::drop, second half: *self.guard = active_reads, and the
\* MutexGuard is dropped; set then returns the displaced value
DropStore(t) ==
    /\ pc[t] \in {"drop_store", "set_store"}
    /\ inactive_reads' = active_reads[t]
    /\ locked' = FALSE
    /\ holds' = [holds EXCEPT ![t] = FALSE]
    /\ pc' = [pc EXCEPT ![t] = IF pc[t] = "set_store" THEN "set_ret" ELSE "idle"]
    /\ active_reads' = [active_reads EXCEPT ![t] = 0]
    /\ given' = [given EXCEPT ![t] = <<>>]
    /\ touched' = FALSE
    /\ kept' = <<>>
    /\ UNCHANGED <<reads_active, finished_reads, values>>
    /\ UNCHANGED <<cell, strong, poisoned>>
    /\ UNCHANGED <<frames, got, spins, arg>>
    /\ UNCHANGED <<fresh, start, todo, pubs, flipped_at>>
    /\ UNCHANGED weak

\* (mutant) cancel publishes like a guard drop
Cancel_publishes(t) ==
    /\ pc[t] = "idle"
    /\ holds[t]
    /\ Does(t, "cancel")
    /\ reads_active' = inactive_reads
    /\ inactive_reads' = reads_active
    /\ locked' = FALSE
    /\ holds' = [holds EXCEPT ![t] = FALSE]
    /\ given' = [given EXCEPT ![t] = <<>>]
    /\ UNCHANGED <<finished_reads, values>>
    /\ UNCHANGED <<cell, strong, poisoned>>
    /\ UNCHANGED <<pc, frames, got, spins, arg, active_reads>>
    /\ UNCHANGED <<fresh, start, pubs, touched, kept, flipped_at>>
    /\ UNCHANGED weak

\* UpdateGuard::cancel: the MutexGuard alone is dropped
Cancel(t) ==
    /\ pc[t] = "idle"
    /\ holds[t]
    /\ Does(t, "cancel")
    /\ locked' = FALSE
    /\ holds' = [holds EXCEPT ![t] = FALSE]
    /\ given' = [given EXCEPT ![t] = <<>>]
    /\ UNCHANGED <<reads_active, finished_reads, values, inactive_reads>>
    /\ UNCHANGED <<cell, strong, poisoned>>
    /\ UNCHANGED <<pc, frames, got, spins, arg, active_reads>>
    /\ UNCHANGED <<fresh, start, pubs, touched, kept, flipped_at>>
    /\ UNCHANGED weak

\* The cell is dropped by a thread that owns it: no call is running on it
\* and no guard borrows it.  Both stored values are dropped (the fields of
\* a PairLock; ArcCell::drop: drop(Arc::from_raw(*self.arcs[i].get()))).
DropCell(t) ==
    /\ cell \in {"PairLock", "ArcCell"}
    /\ Does(t, "destroy")
    /\ pc[t] = "idle"
    /\ \A u \in Threads : pc[u] \in {"idle", "get_ret"} /\ frames[u] = <<>> /\ ~holds[u]
    /\ cell' = "gone"
    /\ strong' = [o \in DOMAIN strong |->
                    strong[o] - Cardinality({s \in Slots : values[s][1] = o})]
    /\ UNCHANGED <<reads_active, finished_reads, values, inactive_reads, locked, poisoned>>
    /\ UNCHANGED local
    /\ UNCHANGED <<fresh, start, given, pubs, touched, kept, flipped_at>>
    /\ UNCHANGED weak

\* ---------------------------------------------------------------- ArcCell
\* get: let current = self.reads_current.fetch_add(2, Acquire);
\*      let slot = current & 1;
ArcGet(t) ==
    /\ cell = "ArcCell"
    /\ pc[t] = "idle"
    /\ Does(t, "get")
    /\ Outstanding + 1 < 2 ^ (Width - 1)
    /\ reads_active' = WrapAdd(reads_active, 2)
    /\ frames' = [frames EXCEPT ![t] = <<Bit0(reads_active)>>]
    /\ pc' = [pc EXCEPT ![t] = "get_read"]
    /\ start' = [start EXCEPT ![t] = PubsDone]
    /\ UNCHANGED <<finished_reads, values, inactive_reads, locked>>
    /\ UNCHANGED <<cell, strong, poisoned>>
    /\ UNCHANGED <<got, holds, spins, arg, active_reads>>
    /\ UNCHANGED <<fresh, given, pubs, touched, kept, flipped_at>>
    /\ UNCHANGED weak

\* get: let ptr = *self.arcs[slot].get();
ArcRead(t) ==
    /\ pc[t] = "get_read"
    /\ got' = [got EXCEPT ![t] = values[Top(t)]]
    /\ pc' = [pc EXCEPT ![t] = "get_clone"]
    /\ UNCHANGED shared
    /\ UNCHANGED <<frames, holds, spins, arg, active_reads>>
    /\ UNCHANGED ghost
    /\ UNCHANGED weak

\* get: forget(arc.clone()), the strong count of *ptr goes up
ArcClone(t) ==
    /\ pc[t] = "get_clone"
    /\ strong' = [strong EXCEPT ![got[t][1]] = @ + 1]
    /\ pc' = [pc EXCEPT ![t] = "get_finish"]
    /\ UNCHANGED <<cell, reads_active, finished_reads, values, inactive_reads, locked, poisoned>>
    /\ UNCHANGED <<frames, got, holds, spins, arg, active_reads>>
    /\ UNCHANGED ghost
    /\ UNCHANGED weak

\* get: self.finished_reads[slot].fetch_add(2, Release); arc is returned
ArcFinish(t) ==
    /\ pc[t] = "get_finish"
    /\ finished_reads' = [finished_reads EXCEPT ![Top(t)] = WrapAdd(@, 2)]
    /\ frames' = [frames EXCEPT ![t] = <<>>]
    /\ pc' = [pc EXCEPT ![t] = "get_ret"]
    /\ UNCHANGED <<reads_active, values, inactive_reads, locked>>
    /\ UNCHANGED <<cell, strong, poisoned>>
    /\ UNCHANGED <<got, holds, spins, arg, active_reads>>
    /\ UNCHANGED ghost
    /\ UNCHANGED weak

\* the caller drops the Arc that get returned
ArcDropHandle(t) ==
    /\ pc[t] = "get_ret"
    /\ strong' = [strong EXCEPT ![got[t][1]] = @ - 1]
    /\ got' = [got EXCEPT ![t] = <<>>]
    /\ start' = [start EXCEPT ![t] = 0]
    /\ pc' = [pc EXCEPT ![t] = "idle"]
    /\ UNCHANGED <<cell, reads_active, finished_reads, values, inactive_reads, locked, poisoned>>
    /\ UNCHANGED <<frames, holds, spins, arg, active_reads>>
    /\ UNCHANGED <<fresh, given, todo, pubs, touched, kept, flipped_at>>
    /\ UNCHANGED weak

\* set(arc) is called with a newly allocated Arc
ArcSet(t) ==
    /\ cell = "ArcCell"
    /\ pc[t] = "idle"
    /\ Does(t, "set")
    /\ Room
    /\ Payable(t)
    /\ strong' = (Payload(t) :> 1) @@ strong
    /\ arg' = [arg EXCEPT ![t] = <<Payload(t)>>]
    /\ given' = [given EXCEPT ![t] = <<Payload(t)>>]
    /\ fresh' = Taken(t)
    /\ pc' = [pc EXCEPT ![t] = "aset_lock"]
    /\ UNCHANGED <<cell, reads_active, finished_reads, values, inactive_reads, locked, poisoned>>
    /\ UNCHANGED <<frames, got, holds, spins, active_reads>>
    /\ UNCHANGED <<start, pubs, touched, kept, flipped_at>>
    /\ UNCHANGED weak

\* set: let mut lock = self.prev_reads.lock().unwrap();
ArcLock(t) ==
    /\ pc[t] = "aset_lock"
    /\ MutexFree
    /\ LockResult = "Ok"
    /\ locked' = TRUE
    /\ pc' = [pc EXCEPT ![t] = "aset_check"]
    /\ UNCHANGED <<reads_active, finished_reads, values, inactive_reads>>
    /\ UNCHANGED <<cell, strong, poisoned>>
    /\ UNCHANGED <<frames, got, holds, spins, arg, active_reads>>
    /\ UNCHANGED ghost
    /\ UNCHANGED weak

\* (mutant) set does not wait for the readers of the slot it overwrites
Drained_unchecked(prev_reads) == TRUE

\* set: self.finished_reads[next_active].load(Acquire) != prev_reads, negated
Drained(prev_reads) == finished_reads[Bit0(prev_reads)] = prev_reads

\* set: the first load; if the slot is not drained, four spin_loop_hint()s
ArcCheck(t) ==
    /\ pc[t] = "aset_check"
    /\ pc' = [pc EXCEPT ![t] = IF Drained(inactive_reads) THEN "aset_write" ELSE "aset_wait"]
    /\ UNCHANGED shared
    /\ UNCHANGED <<frames, got, holds, spins, arg, active_reads>>
    /\ UNCHANGED ghost
    /\ UNCHANGED weak

\* set: while ... != prev_reads { yield_now() }, left once the slot is
\* drained; the mutex stays locked meanwhile
ArcWait(t) ==
    /\ pc[t] = "aset_wait"
    /\ Drained(inactive_reads)
    /\ pc' = [pc EXCEPT ![t] = "aset_write"]
    /\ UNCHANGED shared
    /\ UNCHANGED <<frames, got, holds, spins, arg, active_reads>>
    /\ UNCHANGED ghost
    /\ UNCHANGED weak

\* (mutant) set takes the slot from reads_current instead of prev_reads
ArcWrite_current(t) ==
    /\ pc[t] = "aset_write"
    /\ values' = [values EXCEPT ![Bit0(reads_active)] = arg[t]]
    /\ arg' = [arg EXCEPT ![t] = values[Bit0(reads_active)]]
    /\ pc' = [pc EXCEPT ![t] = "aset_swap"]
    /\ UNCHANGED <<reads_active, finished_reads, inactive_reads, locked>>
    /\ UNCHANGED <<cell, strong, poisoned>>
    /\ UNCHANGED <<frames, got, holds, spins, active_reads>>
    /\ UNCHANGED ghost
    /\ UNCHANGED weak

\* set: let prevx2_ptr = *slot; *slot = Arc::into_raw(arc);
ArcWrite(t) ==
    /\ pc[t] = "aset_write"
    /\ values' = [values EXCEPT ![Bit0(inactive_reads)] = arg[t]]
    /\ arg' = [arg EXCEPT ![t] = values[Bit0(inactive_reads)]]
    /\ pc' = [pc EXCEPT ![t] = "aset_swap"]
    /\ UNCHANGED <<reads_active, finished_reads, inactive_reads, locked>>
    /\ UNCHANGED <<cell, strong, poisoned>>
    /\ UNCHANGED <<frames, got, holds, spins, active_reads>>
    /\ UNCHANGED ghost
    /\ UNCHANGED weak

\* set: let current_reads = self.reads_current.swap(prev_reads, Release);
ArcSwap(t) ==
    /\ pc[t] = "aset_swap"
    /\ active_reads' = [active_reads EXCEPT ![t] = reads_active]
    /\ reads_active' = inactive_reads
    /\ pubs' = Append(pubs, [val |-> values[Bit0(inactive_reads)], set |-> given[t]])
    /\ flipped_at' = reads_active
    /\ pc' = [pc EXCEPT ![t] = "aset_store"]
    /\ UNCHANGED <<finished_reads, values, inactive_reads, locked>>
    /\ UNCHANGED <<cell, strong, poisoned>>
    /\ UNCHANGED <<frames, got, holds, spins, arg>>
    /\ UNCHANGED <<fresh, start, given, todo, touched, kept>>
    /\ UNCHANGED weak

\* set: *lock = current_reads; drop(lock);
ArcStore(t) ==
    /\ pc[t] = "aset_store"
    /\ inactive_reads' = active_reads[t]
    /\ locked' = FALSE
    /\ active_reads' = [active_reads EXCEPT ![t] = 0]
    /\ given' = [given EXCEPT ![t] = <<>>]
    /\ pc' = [pc EXCEPT ![t] = "aset_drop"]
    /\ UNCHANGED <<reads_active, finished_reads, values>>
    /\ UNCHANGED <<cell, strong, poisoned>>
    /\ UNCHANGED <<frames, got, holds, spins, arg>>
    /\ UNCHANGED <<fresh, start, todo, pubs, touched, kept, flipped_at>>
    /\ UNCHANGED weak

\* set: drop(Arc::from_raw(prevx2_ptr)), after the lock is released
ArcDropPrev(t) ==
    /\ pc[t] = "aset_drop"
    /\ strong' = [strong EXCEPT ![arg[t][1]] = @ - 1]
    /\ arg' = [arg EXCEPT ![t] = <<>>]
    /\ pc' = [pc EXCEPT ![t] = "idle"]
    /\ UNCHANGED <<cell, reads_active, finished_reads, values, inactive_reads, locked, poisoned>>
    /\ UNCHANGED <<frames, got, holds, spins, active_reads>>
    /\ UNCHANGED ghost
    /\ UNCHANGED weak

Next ==
    \/ \E t \in Threads : ViewEnter(t)
    \/ \E t \in Threads : ViewRead(t)
    \/ \E t \in Threads : ViewBody(t)
    \/ \E t \in Threads : ViewExit(t)
    \/ \E t \in Threads : Update(t)
    \/ \E t \in Threads : Set(t)
    \/ \E t \in Threads : Lock(t)
    \/ \E t \in Threads : Spin(t)
    \/ \E t \in Threads : TryUpdate(t)
    \/ \E t \in Threads : TryCheck(t)
    \/ \E t \in Threads : Return(t)
    \/ \E t \in Threads : GuardWrite(t)
    \/ \E t \in Threads : WriteField(t)
    \/ \E t \in Threads : ReplaceField(t)
    \/ \E t \in Threads : DropSwap(t)
    \/ \E t \in Threads : DropStore(t)
    \/ \E t \in Threads : Cancel(t)
    \/ \E t \in Threads : GetClone(t)
    \/ \E t \in Threads : DropCell(t)
    \/ \E t \in Threads : ArcGet(t)
    \/ \E t \in Threads : ArcRead(t)
    \/ \E t \in Threads : ArcClone(t)
    \/ \E t \in Threads : ArcFinish(t)
    \/ \E t \in Threads : ArcDropHandle(t)
    \/ \E t \in Threads : ArcSet(t)
    \/ \E t \in Threads : ArcLock(t)
    \/ \E t \in Threads : ArcCheck(t)
    \/ \E t \in Threads : ArcWait(t)
    \/ \E t \in Threads : ArcWrite(t)
    \/ \E t \in Threads : ArcSwap(t)
    \/ \E t \in Threads : ArcStore(t)
    \/ \E t \in Threads : ArcDropPrev(t)

Spec == Init /\ [][Next]_vars

\* PairLock::with_clone(init): Self::new(init, init.clone())
with_clone(init) == New(init, init)

\* The cells of Init, and PairLock::with_clone(1) as in tests::drop_runs.
InitDrops ==
    \/ Init
    \/ /\ with_clone(Whole(1))
       /\ pubs = <<[val |-> Whole(1), set |-> <<>>], [val |-> Whole(1), set |-> <<>>]>>
       /\ todo = [t \in Threads |-> <<AnyCall>>]
       /\ Idle

SpecDrops == InitDrops /\ [][Next]_vars

\* tests::basic without its try_update step, which is the round trip of one
\* thread: view, update, write through the guard, drop it, view, set, view.
\* The constructor's arguments and the two values written are drawn from
\* BasicVals, which has the 1, 0, 2 and 4 of the test.
BasicVals == {0, 1, 2, 4}
basic(c, d) ==
    << <<"view", 0>>, <<"exit", 0>>, <<"update", 0>>, <<"write", c>>,
       <<"drop", 0>>, <<"view", 0>>, <<"exit", 0>>, <<"set", d>>,
       <<"view", 0>>, <<"exit", 0>> >>

InitBasic ==
    /\ \E a, b \in BasicVals :
        /\ New(Whole(a), Whole(b))
        /\ pubs = <<[val |-> Whole(b), set |-> <<>>], [val |-> Whole(a), set |-> <<>>]>>
    /\ \E c, d \in BasicVals :
        todo = [t \in Threads |-> IF t = 1 THEN basic(c, d) ELSE <<>>]
    /\ Idle

NextBasic ==
    \/ ViewEnter(1)
    \/ ViewRead(1)
    \/ ViewExit(1)
    \/ Update(1)
    \/ Set(1)
    \/ Lock(1)
    \/ Spin(1)
    \/ GuardWrite(1)
    \/ WriteField(1)
    \/ ReplaceField(1)
    \/ DropSwap(1)
    \/ DropStore(1)
    \/ Return(1)

SpecBasic == InitBasic /\ [][NextBasic]_vars

\* A reader that has taken its reservation is scheduled until it has read the
\* slot (and, in ArcCell::get, until it has released the reservation); no
\* writer step is ever forced, so a writer may keep the mutex forever.
ReaderStep(t) == ViewRead(t) \/ ArcRead(t) \/ ArcClone(t) \/ ArcFinish(t)
SpecReaders == Spec /\ \A t \in Threads : WF_vars(ReaderStep(t))

\* Fair scheduling of threads that are inside a call: a writer that waits
\* for the mutex or for the drain, and a reader between its two fetch_adds,
\* keep being run.  When a view's closure returns is left to the client.
WriterStep(t) == Lock(t) \/ Spin(t) \/ ArcLock(t) \/ ArcCheck(t) \/ ArcWait(t)
SpecProgress ==
    Spec /\ \A t \in Threads : WF_vars(WriterStep(t)) /\ WF_vars(ReaderStep(t))

\* ------------------------------------------------------------- unwinding
\* Code of the client panics inside a view's closure or while it has an
\* UpdateGuard: the stack is unwound, which drops the Releasers and the
\* guard that the thread has.
Panic(t) ==
    /\ cell = "PairLock"
    /\ pc[t] \in {"idle", "view", "viewed"}
    /\ frames[t] # <<>> \/ holds[t]
    /\ Does(t, "panic")
    /\ pc' = [pc EXCEPT ![t] = "unwinding"]
    /\ got' = [got EXCEPT ![t] = <<>>]
    /\ start' = [start EXCEPT ![t] = 0]
    /\ UNCHANGED shared
    /\ UNCHANGED <<frames, holds, spins, arg, active_reads>>
    /\ UNCHANGED <<fresh, given, pubs, touched, kept, flipped_at>>
    /\ UNCHANGED weak

\* (mutant) the increment is written after the call of the closure and not
\* in a destructor: unwinding skips it
UnwindView_skips(t) ==
    /\ pc[t] = "unwinding"
    /\ frames[t] # <<>>
    /\ frames' = [frames EXCEPT ![t] = SubSeq(@, 1, Len(@) - 1)]
    /\ UNCHANGED shared
    /\ UNCHANGED <<pc, got, holds, spins, arg, active_reads>>
    /\ UNCHANGED ghost
    /\ UNCHANGED weak

\* unwinding leaves view: `let _r = Releaser(&self.finished_reads[slot])`
\* is dropped, Releaser::drop runs as at a normal return
UnwindView(t) ==
    /\ pc[t] = "unwinding"
    /\ frames[t] # <<>>
    /\ finished_reads' = [finished_reads EXCEPT ![Top(t)] = WrapAdd(@, 2)]
    /\ frames' = [frames EXCEPT ![t] = SubSeq(@, 1, Len(@) - 1)]
    /\ UNCHANGED <<reads_active, values, inactive_reads, locked>>
    /\ UNCHANGED <<cell, strong, poisoned>>
    /\ UNCHANGED <<pc, got, holds, spins, arg, active_reads>>
    /\ UNCHANGED ghost
    /\ UNCHANGED weak

\* (mutant) unwinding lets go of the guard as cancel does, without the swap
UnwindSwap_cancels(t) ==
    /\ pc[t] = "unwinding"
    /\ holds[t]
    /\ locked' = FALSE
    /\ poisoned' = TRUE
    /\ holds' = [holds EXCEPT ![t] = FALSE]
    /\ given' = [given EXCEPT ![t] = <<>>]
    /\ touched' = FALSE
    /\ kept' = <<>>
    /\ UNCHANGED <<cell, reads_active, finished_reads, values, inactive_reads, strong>>
    /\ UNCHANGED <<pc, frames, got, spins, arg, active_reads>>
    /\ UNCHANGED <<fresh, start, todo, pubs, flipped_at>>
    /\ UNCHANGED weak

\* unwinding drops the UpdateGuard: UpdateGuard::drop, first half
UnwindSwap(t) ==
    /\ pc[t] = "unwinding"
    /\ holds[t]
    /\ active_reads' = [active_reads EXCEPT ![t] = reads_active]
    /\ reads_active' = Flipped
    /\ pc' = [pc EXCEPT ![t] = "unwind_store"]
    /\ pubs' = Append(pubs, [val |-> deref, set |-> given[t]])
    /\ flipped_at' = reads_active
    /\ UNCHANGED <<finished_reads, values, inactive_reads, locked>>
    /\ UNCHANGED <<cell, strong, poisoned>>
    /\ UNCHANGED <<frames, got, holds, spins, arg>>
    /\ UNCHANGED <<fresh, start, given, todo, touched, kept>>
    /\ UNCHANGED weak

\* UpdateGuard::drop, second half, while panicking: the MutexGuard is
\* dropped by a panicking thread, which unlocks the Mutex and poisons it
UnwindStore(t) ==
    /\ pc[t] = "unwind_store"
    /\ inactive_reads' = active_reads[t]
    /\ locked' = FALSE
    /\ poisoned' = TRUE
    /\ holds' = [holds EXCEPT ![t] = FALSE]
    /\ pc' = [pc EXCEPT ![t] = "unwinding"]
    /\ active_reads' = [active_reads EXCEPT ![t] = 0]
    /\ given' = [given EXCEPT ![t] = <<>>]
    /\ touched' = FALSE
    /\ kept' = <<>>
    /\ UNCHANGED <<cell, reads_active, finished_reads, values, strong>>
    /\ UNCHANGED <<frames, got, spins, arg>>
    /\ UNCHANGED <<fresh, start, todo, pubs, flipped_at>>
    /\ UNCHANGED weak

\* the stack is unwound: the panic is caught, or ends the thread's closure;
\* the client goes on
Caught(t) ==
    /\ pc[t] = "unwinding"
    /\ frames[t] = <<>>
    /\ ~holds[t]
    /\ pc' = [pc EXCEPT ![t] = "idle"]
    /\ UNCHANGED shared
    /\ UNCHANGED <<frames, got, holds, spins, arg, active_reads>>
    /\ UNCHANGED ghost
    /\ UNCHANGED weak

NextPanic ==
    \/ Next
    \/ \E t \in Threads : Panic(t)
    \/ \E t \in Threads : UnwindView(t)
    \/ \E t \in Threads : UnwindSwap(t)
    \/ \E t \in Threads : UnwindStore(t)
    \/ \E t \in Threads : Caught(t)

\* The cell of Init, with clients whose code may panic.
SpecPanic == Init /\ [][NextPanic]_vars

\* A thread that unwinds keeps running until its stack is unwound.
UnwindStep(t) == UnwindView(t) \/ UnwindSwap(t) \/ UnwindStore(t)
\* Thread 1 takes a guard with update() and panics with it, as the doc of
\* update has it ("Panicing while holding the guard does not poison the
\* lock"); what it does afterwards and what the other threads do is
\* arbitrary.  The ArcCell has no code of the client under its mutex.
poisoning == << <<"update", 0>>, <<"panic", 0>>, AnyCall >>
InitPoison ==
    /\ \/ /\ New(Whole(1), Whole(0))
          /\ pubs = <<[val |-> Whole(0), set |-> <<>>], [val |-> Whole(1), set |-> <<>>]>>
          /\ todo = [t \in Threads |-> IF t = 1 THEN poisoning ELSE <<AnyCall>>]
       \/ /\ \E reads_start \in ReadsStart : ArcNew(1, reads_start)
          /\ pubs = <<[val |-> <<1>>, set |-> <<>>], [val |-> <<1>>, set |-> <<>>]>>
          /\ todo = [t \in Threads |-> <<AnyCall>>]
    /\ Idle
SpecPoison ==
    /\ InitPoison /\ [][NextPanic]_vars
    /\ \A t \in Threads :
        WF_vars(WriterStep(t)) /\ WF_vars(ReaderStep(t)) /\ WF_vars(UnwindStep(t))

\* ------------------------------------------------------ exclusive access
\* `&mut self` and `self`: no other thread is inside a call, no view is open
\* and no UpdateGuard borrows the cell.
Exclusive(t) ==
    /\ cell = "PairLock"
    /\ pc[t] = "idle"
    /\ \A u \in Threads : pc[u] \in {"idle", "get_ret"} /\ frames[u] = <<>> /\ ~holds[u]

\* get_mut_both: let active = *self.reads_active.get_mut() & 1;
\* (&mut*self.values[active].get(), &mut*self.values[active^1].get())
get_mut_both ==
    LET active_slot == reads_active % 2
    IN <<values[active_slot], values[1 - active_slot]>>

\* (mutant) slot 0 is taken for the active slot
into_inner_fixed == <<values[0], values[1]>>

\* into_inner: let active = reads_active.into_inner() & 1;
\* (ptr::read(values[active].get()), ptr::read(values[active^1].get()))
into_inner ==
    LET active_slot == reads_active % 2
    IN <<values[active_slot], values[1 - active_slot]>>

\* get_mut_both is called and the caller reads both values through the
\* references, as tests::exclusive does; the borrow ends
GetMutBoth(t) ==
    /\ Exclusive(t)
    /\ Does(t, "get_mut_both")
    /\ got' = [got EXCEPT ![t] = get_mut_both]
    /\ pc' = [pc EXCEPT ![t] = "both_ret"]
    /\ UNCHANGED shared
    /\ UNCHANGED <<frames, holds, spins, arg, active_reads>>
    /\ UNCHANGED <<fresh, start, given, pubs, touched, kept, flipped_at>>
    /\ UNCHANGED weak

\* into_inner consumes the cell and moves both values out to the caller
IntoInner(t) ==
    /\ Exclusive(t)
    /\ Does(t, "into_inner")
    /\ got' = [got EXCEPT ![t] = into_inner]
    /\ pc' = [pc EXCEPT ![t] = "inner_ret"]
    /\ cell' = "gone"
    /\ UNCHANGED <<reads_active, finished_reads, values, inactive_reads, locked, poisoned, strong>>
    /\ UNCHANGED <<frames, holds, spins, arg, active_reads>>
    /\ UNCHANGED <<fresh, start, given, pubs, touched, kept, flipped_at>>
    /\ UNCHANGED weak

\* the caller is done with what it got; the values that into_inner moved
\* out are dropped
ExclusiveReturn(t) ==
    /\ pc[t] \in {"both_ret", "inner_ret"}
    /\ strong' = IF pc[t] = "both_ret" THEN strong
                 ELSE [o \in DOMAIN strong |->
                         strong[o] - Cardinality({i \in 1..2 : got[t][i][1] = o})]
    /\ got' = [got EXCEPT ![t] = <<>>]
    /\ pc' = [pc EXCEPT ![t] = "idle"]
    /\ UNCHANGED <<cell, reads_active, finished_reads, values, inactive_reads, locked, poisoned>>
    /\ UNCHANGED <<frames, holds, spins, arg, active_reads>>
    /\ UNCHANGED ghost
    /\ UNCHANGED weak

NextExclusive ==
    \/ Next
    \/ \E t \in Threads : GetMutBoth(t)
    \/ \E t \in Threads : IntoInner(t)
    \/ \E t \in Threads : ExclusiveReturn(t)

\* The cells of Init and PairLock::new(a, b) for a, b in 0..1, owned by
\* clients that also use the methods that need exclusive access.
InitExclusive ==
    \/ Init
    \/ /\ \E a, b \in 0..1 :
            /\ New(Whole(a), Whole(b))
            /\ pubs = <<[val |-> Whole(b), set |-> <<>>], [val |-> Whole(a), set |-> <<>>]>>
       /\ todo = [t \in Threads |-> <<AnyCall>>]
       /\ Idle

SpecExclusive == InitExclusive /\ [][NextExclusive]_vars

\* ----------------------------------------------------------- nested views
\* (mutant) a view inside a view shares the outer view's reservation
ViewReenter_shares(t) ==
    /\ cell = "PairLock"
    /\ pc[t] = "idle"
    /\ Does(t, "view")
    /\ MaxNest <= Len(frames[t])
    /\ Len(frames[t]) < MaxReentry
    /\ Outstanding + 1 < 2 ^ (Width - 1)
    /\ UNCHANGED reads_active
    /\ frames' = [frames EXCEPT ![t] = Append(@, Bit0(reads_active))]
    /\ pc' = [pc EXCEPT ![t] = "view"]
    /\ start' = [start EXCEPT ![t] = PubsDone]
    /\ UNCHANGED <<finished_reads, values, inactive_reads, locked>>
    /\ UNCHANGED <<cell, strong, poisoned>>
    /\ UNCHANGED <<got, holds, spins, arg, active_reads>>
    /\ UNCHANGED <<fresh, given, pubs, touched, kept, flipped_at>>
    /\ UNCHANGED weak

\* view is called inside the closure of a view of the same thread, as in
\* tests::singlethreaded_locking: r.view(|_| r.view(|_| ...))
ViewReenter(t) ==
    /\ cell = "PairLock"
    /\ pc[t] = "idle"
    /\ Does(t, "view")
    /\ MaxNest <= Len(frames[t])
    /\ Len(frames[t]) < MaxReentry
    /\ Outstanding + 1 < 2 ^ (Width - 1)
    /\ reads_active' = WrapAdd(reads_active, 2)
    /\ frames' = [frames EXCEPT ![t] = Append(@, Bit0(reads_active))]
    /\ pc' = [pc EXCEPT ![t] = "view"]
    /\ start' = [start EXCEPT ![t] = PubsDone]
    /\ UNCHANGED <<finished_reads, values, inactive_reads, locked>>
    /\ UNCHANGED <<cell, strong, poisoned>>
    /\ UNCHANGED <<got, holds, spins, arg, active_reads>>
    /\ UNCHANGED <<fresh, given, pubs, touched, kept, flipped_at>>
    /\ UNCHANGED weak

NextNested ==
    \/ Next
    \/ \E t \in Threads : ViewReenter(t)

\* The cells of Init, with clients that also call view inside a view.
SpecNested == Init /\ [][NextNested]_vars

\* ------------------------------------------------------- cells of Arcs
\* PairLock::new_arc(value): PairLock::with_clone(Arc::new(value))
new_arc(value) == with_clone(Whole(value))

\* A PairLock<Arc<T>> from new_arc(1) or an ArcCell from
\* ArcCell::new(Arc::new(1)), of either build.
InitArcs ==
    /\ \/ /\ new_arc(1)
          /\ pubs = <<[val |-> Whole(1), set |-> <<>>], [val |-> Whole(1), set |-> <<>>]>>
       \/ /\ \E reads_start \in ReadsStart : ArcNew(1, reads_start)
          /\ pubs = <<[val |-> <<1>>, set |-> <<>>], [val |-> <<1>>, set |-> <<>>]>>
    /\ todo = [t \in Threads |-> <<AnyCall>>]
    /\ Idle

\* The clients call only get and set: on the PairLock get is
\* get_clone = view(|v| v.clone()) and set is mem::replace through update().
NextArcs ==
    \/ \E t \in Threads : ViewEnter(t)
    \/ \E t \in Threads : ViewRead(t)
    \/ \E t \in Threads : GetClone(t)
    \/ \E t \in Threads : ViewExit(t) /\ pc[t] = "cloned"
    \/ \E t \in Threads : Set(t)
    \/ \E t \in Threads : Lock(t)
    \/ \E t \in Threads : Spin(t)
    \/ \E t \in Threads : ReplaceField(t)
    \/ \E t \in Threads : DropSwap(t)
    \/ \E t \in Threads : DropStore(t)
    \/ \E t \in Threads : Return(t)
    \/ \E t \in Threads : ArcGet(t)
    \/ \E t \in Threads : ArcRead(t)
    \/ \E t \in Threads : ArcClone(t)
    \/ \E t \in Threads : ArcFinish(t)
    \/ \E t \in Threads : ArcDropHandle(t)
    \/ \E t \in Threads : ArcSet(t)
    \/ \E t \in Threads : ArcLock(t)
    \/ \E t \in Threads : ArcCheck(t)
    \/ \E t \in Threads : ArcWait(t)
    \/ \E t \in Threads : ArcWrite(t)
    \/ \E t \in Threads : ArcSwap(t)
    \/ \E t \in Threads : ArcStore(t)
    \/ \E t \in Threads : ArcDropPrev(t)

SpecArcs == InitArcs /\ [][NextArcs]_vars

\* ------------------------------------------------------- memory orderings
\* The steps above take the atomic accesses in one order that all threads
\* agree on.  Here every access has the Ordering the source gives it, and a
\* thread sees of the other threads' accesses only what happens-before its
\* own step: a load may read any message of its location that is not older
\* than what the thread has seen, a read-modify-write reads the newest, and
\* a message carries the view that its writer released.  A SeqCst
\* read-modify-write is taken as acquire and release only, fence(SeqCst) as
\* a fence that all such fences agree on the order of; reads of a not yet
\* made write are left out.
MaxReads == 3           \* views and gets entered in one behaviour

\* Ordering arguments, by type of cell:
\* reads_active.fetch_add(2, SeqCst) / reads_current.fetch_add(2, Acquire)
EntryOrder(c) == IF c = "PairLock" THEN "SeqCst" ELSE "Acquire"
\* Releaser::drop: fence(SeqCst) before the fetch_add; get has no fence
ExitFence(c) == IF c = "PairLock" THEN "SeqCst" ELSE "none"
\* finished_reads[slot].fetch_add(2, Relaxed) / fetch_add(2, Release)
ExitOrder(c) == IF c = "PairLock" THEN "Relaxed" ELSE "Release"
\* (mutant) the drain check loads with Relaxed and no fence follows
CheckOrder_relaxed(c) == "Relaxed"

\* check_inactive: load(Relaxed), then fence(SeqCst) / set: load(Acquire)
CheckOrder(c) == IF c = "PairLock" THEN "Relaxed" ELSE "Acquire"
CheckFence(c) == IF c = "PairLock" THEN "SeqCst" ELSE "none"
\* UpdateGuard::drop: fence(SeqCst); swap(inactive_reads, SeqCst) /
\* set: swap(prev_reads, Release)
SwapFence(c) == IF c = "PairLock" THEN "SeqCst" ELSE "none"
SwapOrder(c) == IF c = "PairLock" THEN "SeqCst" ELSE "Release"

Acquires(o) == o \in {"Acquire", "AcqRel", "SeqCst"}
Releases(o) == o \in {"Release", "AcqRel", "SeqCst"}

\* views and gets entered so far: those finished and those still open
Entries == (Len(fhist[0]) - 1) + (Len(fhist[1]) - 1) + Outstanding

\* The counters do not go half their range in one behaviour: no message
\* that a load may still read is a whole turn behind the newest.
Turning == Entries + 1 < 2 ^ (Width - 1)

\* the value of the i-th message of finished_reads[s]: every message after
\* the constructor's is a fetch_add(2) on the one before
FinishedAt(s, i) ==
    (finished_reads[s] + Modulus * Len(fhist[s]) - 2 * (Len(fhist[s]) - i)) % Modulus

\* fetch_add / swap on reads_active with ordering o
RmwActive(t, o) ==
    LET c == IF Acquires(o) THEN Join(cur[t], raview) ELSE cur[t]
    IN /\ cur' = [cur EXCEPT ![t] = c]
       /\ acq' = [acq EXCEPT ![t] = Join(@, raview)]
       /\ raview' = Join(IF Releases(o) THEN c ELSE rel[t], raview)

\* fetch_add on finished_reads[s] with ordering o
RmwFinished(t, s, o) ==
    LET m == fhist[s][Len(fhist[s])]
        ts == Len(fhist[s]) + 1
        c == [(IF Acquires(o) THEN Join(cur[t], m) ELSE cur[t]) EXCEPT !.f[s] = ts]
        sent == [Join(IF Releases(o) THEN c ELSE rel[t], m) EXCEPT !.f[s] = ts]
    IN /\ cur' = [cur EXCEPT ![t] = c]
       /\ acq' = [acq EXCEPT ![t] = Join(@, m)]
       /\ fhist' = [fhist EXCEPT ![s] = Append(@, sent)]

\* the messages of finished_reads[s] that a load by t may read
Readable(t, s) == cur[t].f[s]..Len(fhist[s])
\* the view of t after a load with ordering o has read the i-th of them
Loaded(t, s, i, o) ==
    [(IF Acquires(o) THEN Join(cur[t], fhist[s][i]) ELSE cur[t]) EXCEPT !.f[s] = i]

\* fence(SeqCst)
Fence(t) ==
    LET c == Join(Join(cur[t], acq[t]), sc)
    IN /\ cur' = [cur EXCEPT ![t] = c]
       /\ acq' = [acq EXCEPT ![t] = c]
       /\ rel' = [rel EXCEPT ![t] = c]
       /\ sc' = c

\* t reads the slot s: what it gets is the i-th value written there, for
\* any i that what it has seen does not rule out
SlotRead(t, s, i) ==
    /\ i \in cur[t].v[s]..Len(vhist[s])
    /\ cur' = [cur EXCEPT ![t].r[t] = @ + 1]
    /\ lastread' = [lastread EXCEPT ![s][t] = cur[t].r[t] + 1]

\* t uses once more the object it took from the slot s
SlotUse(t, s) ==
    /\ cur' = [cur EXCEPT ![t].r[t] = @ + 1]
    /\ lastread' = [lastread EXCEPT ![s][t] = cur[t].r[t] + 1]

\* t writes v to the slot s
SlotWrite(t, s, v) ==
    /\ vhist' = [vhist EXCEPT ![s] = Append(@, v)]
    /\ cur' = [cur EXCEPT ![t].v[s] = Len(vhist[s]) + 1]

\* view: let active = self.reads_active.fetch_add(2, SeqCst);
OrdViewEnter(t) ==
    /\ cell = "PairLock"
    /\ pc[t] = "idle"
    /\ Does(t, "view")
    /\ Len(frames[t]) < MaxNest
    /\ Outstanding + 1 < 2 ^ (Width - 1)
    /\ Entries < MaxReads
    /\ Turning
    /\ reads_active' = WrapAdd(reads_active, 2)
    /\ frames' = [frames EXCEPT ![t] = Append(@, Bit0(reads_active))]
    /\ pc' = [pc EXCEPT ![t] = "view"]
    /\ start' = [start EXCEPT ![t] = PubsDone]
    /\ RmwActive(t, EntryOrder(cell))
    /\ UNCHANGED <<finished_reads, values, inactive_reads, locked>>
    /\ UNCHANGED <<cell, strong, poisoned>>
    /\ UNCHANGED <<got, holds, spins, arg, active_reads>>
    /\ UNCHANGED <<fresh, given, pubs, touched, kept, flipped_at>>
    /\ UNCHANGED <<rel, sc, mview, fhist, vhist, lastread>>

\* viewer(&*self.values[slot].get()): the closure reads the value
OrdViewRead(t) ==
    /\ pc[t] = "view"
    /\ \E i \in 1..Len(vhist[Top(t)]) :
          /\ SlotRead(t, Top(t), i)
          /\ got' = [got EXCEPT ![t] = vhist[Top(t)][i]]
    /\ pc' = [pc EXCEPT ![t] = "viewed"]
    /\ UNCHANGED shared
    /\ UNCHANGED <<frames, holds, spins, arg, active_reads>>
    /\ UNCHANGED ghost
    /\ UNCHANGED <<acq, rel, sc, mview, raview, fhist, vhist>>

\* Releaser::drop: fence(SeqCst);
OrdExitFence(t) ==
    /\ pc[t] = "viewed"
    /\ Does(t, "exit")
    /\ ExitFence(cell) = "SeqCst"
    /\ Fence(t)
    /\ pc' = [pc EXCEPT ![t] = "exit_add"]
    /\ UNCHANGED shared
    /\ UNCHANGED <<frames, got, holds, spins, arg, active_reads>>
    /\ UNCHANGED <<fresh, start, given, pubs, touched, kept, flipped_at>>
    /\ UNCHANGED <<mview, raview, fhist, vhist, lastread>>

\* Releaser::drop: self.0.fetch_add(2, Relaxed);
OrdViewExit(t) ==
    /\ pc[t] = "exit_add"
    /\ finished_reads' = [finished_reads EXCEPT ![Top(t)] = WrapAdd(@, 2)]
    /\ RmwFinished(t, Top(t), ExitOrder(cell))
    /\ frames' = [frames EXCEPT ![t] = SubSeq(@, 1, Len(@) - 1)]
    /\ pc' = [pc EXCEPT ![t] = "idle"]
    /\ got' = [got EXCEPT ![t] = <<>>]
    /\ start' = [start EXCEPT ![t] = 0]
    /\ UNCHANGED <<reads_active, values, inactive_reads, locked>>
    /\ UNCHANGED <<cell, strong, poisoned>>
    /\ UNCHANGED <<holds, spins, arg, active_reads>>
    /\ UNCHANGED <<fresh, given, todo, pubs, touched, kept, flipped_at>>
    /\ UNCHANGED <<rel, sc, mview, raview, vhist, lastread>>

\* update: self.inactive_reads.lock(); locking the Mutex acquires what the
\* last unlock released
OrdLock(t) ==
    /\ pc[t] = "set_lock"
    /\ MutexFree
    /\ Guarded(LockResult)
    /\ locked' = TRUE
    /\ cur' = [cur EXCEPT ![t] = Join(@, mview)]
    /\ pc' = [pc EXCEPT ![t] = "set_spin"]
    /\ spins' = [spins EXCEPT ![t] = 0]
    /\ UNCHANGED <<reads_active, finished_reads, values, inactive_reads>>
    /\ UNCHANGED <<cell, strong, poisoned>>
    /\ UNCHANGED <<frames, got, holds, arg, active_reads>>
    /\ UNCHANGED ghost
    /\ UNCHANGED <<acq, rel, sc, mview, raview, fhist, vhist, lastread>>

\* check_inactive: self.finished_reads[slot].load(Relaxed) == *inactive_reads,
\* in one round of update's loop; the last Err unlocks and yields
OrdCheck(t) ==
    /\ pc[t] = "set_spin"
    /\ \E i \in Readable(t, GuardSlot) :
          LET c == Loaded(t, GuardSlot, i, CheckOrder(cell))
          IN /\ cur' = [cur EXCEPT ![t] = c]
             /\ acq' = [acq EXCEPT ![t] = Join(@, fhist[GuardSlot][i])]
             /\ IF FinishedAt(GuardSlot, i) = inactive_reads
                THEN /\ pc' = [pc EXCEPT ![t] = "set_fence"]
                     /\ spins' = [spins EXCEPT ![t] = 0]
                     /\ UNCHANGED <<locked, mview>>
                ELSE IF spins[t] + 1 < MAX_UPDATE_SPINS
                THEN /\ spins' = [spins EXCEPT ![t] = @ + 1]
                     /\ UNCHANGED <<pc, locked, mview>>
                ELSE /\ locked' = FALSE
                     /\ mview' = c
                     /\ spins' = [spins EXCEPT ![t] = 0]
                     /\ pc' = [pc EXCEPT ![t] = "set_lock"]
    /\ UNCHANGED <<reads_active, finished_reads, values, inactive_reads>>
    /\ UNCHANGED <<cell, strong, poisoned>>
    /\ UNCHANGED <<frames, got, holds, arg, active_reads>>
    /\ UNCHANGED ghost
    /\ UNCHANGED <<rel, sc, raview, fhist, vhist, lastread>>

\* check_inactive: fence(SeqCst); Ok(UpdateGuard{..})
OrdCheckFence(t) ==
    /\ pc[t] = "set_fence"
    /\ CheckFence(cell) = "SeqCst"
    /\ Fence(t)
    /\ holds' = [holds EXCEPT ![t] = TRUE]
    /\ pc' = [pc EXCEPT ![t] = "replace"]
    /\ UNCHANGED shared
    /\ UNCHANGED <<frames, got, spins, arg, active_reads>>
    /\ UNCHANGED ghost
    /\ UNCHANGED <<mview, raview, fhist, vhist, lastread>>

\* set: mem::replace(&mut *guard, value)
OrdReplace(t) ==
    /\ pc[t] = "replace"
    /\ values' = [values EXCEPT ![GuardSlot] = arg[t]]
    /\ SlotWrite(t, GuardSlot, arg[t])
    /\ arg' = [arg EXCEPT ![t] = values[GuardSlot]]
    /\ pc' = [pc EXCEPT ![t] = "set_drop"]
    /\ UNCHANGED <<reads_active, finished_reads, inactive_reads, locked>>
    /\ UNCHANGED <<cell, strong, poisoned>>
    /\ UNCHANGED <<frames, got, holds, spins, active_reads>>
    /\ UNCHANGED ghost
    /\ UNCHANGED <<acq, rel, sc, mview, raview, fhist, lastread>>

\* UpdateGuard::drop: fence(SeqCst);
OrdDropFence(t) ==
    /\ pc[t] = "set_drop"
    /\ SwapFence(cell) = "SeqCst"
    /\ Fence(t)
    /\ pc' = [pc EXCEPT ![t] = "set_swap"]
    /\ UNCHANGED shared
    /\ UNCHANGED <<frames, got, holds, spins, arg, active_reads>>
    /\ UNCHANGED ghost
    /\ UNCHANGED <<mview, raview, fhist, vhist, lastread>>

\* UpdateGuard::drop:
\* let active_reads = self.pl.reads_active.swap(inactive_reads, SeqCst);
OrdSwap(t) ==
    /\ pc[t] = "set_swap"
    /\ active_reads' = [active_reads EXCEPT ![t] = reads_active]
    /\ reads_active' = Flipped
    /\ RmwActive(t, SwapOrder(cell))
    /\ pc' = [pc EXCEPT ![t] = "set_store"]
    /\ pubs' = Append(pubs, [val |-> deref, set |-> given[t]])
    /\ flipped_at' = reads_active
    /\ UNCHANGED <<finished_reads, values, inactive_reads, locked>>
    /\ UNCHANGED <<cell, strong, poisoned>>
    /\ UNCHANGED <<frames, got, holds, spins, arg>>
    /\ UNCHANGED <<fresh, start, given, todo, touched, kept>>
    /\ UNCHANGED <<rel, sc, mview, fhist, vhist, lastread>>

\* UpdateGuard::drop: *self.guard = active_reads; the MutexGuard is
\* dropped, which releases what the thread has seen and done
OrdStore(t) ==
    /\ pc[t] = "set_store"
    /\ inactive_reads' = active_reads[t]
    /\ locked' = FALSE
    /\ mview' = cur[t]
    /\ holds' = [holds EXCEPT ![t] = FALSE]
    /\ pc' = [pc EXCEPT ![t] = "set_ret"]
    /\ active_reads' = [active_reads EXCEPT ![t] = 0]
    /\ given' = [given EXCEPT ![t] = <<>>]
    /\ touched' = FALSE
    /\ kept' = <<>>
    /\ UNCHANGED <<reads_active, finished_reads, values>>
    /\ UNCHANGED <<cell, strong, poisoned>>
    /\ UNCHANGED <<frames, got, spins, arg>>
    /\ UNCHANGED <<fresh, start, todo, pubs, flipped_at>>
    /\ UNCHANGED <<cur, acq, rel, sc, raview, fhist, vhist, lastread>>

\* get: let current = self.reads_current.fetch_add(2, Acquire);
OrdGet(t) ==
    /\ cell = "ArcCell"
    /\ pc[t] = "idle"
    /\ Does(t, "get")
    /\ Outstanding + 1 < 2 ^ (Width - 1)
    /\ Entries < MaxReads
    /\ Turning
    /\ reads_active' = WrapAdd(reads_active, 2)
    /\ frames' = [frames EXCEPT ![t] = <<Bit0(reads_active)>>]
    /\ pc' = [pc EXCEPT ![t] = "get_read"]
    /\ start' = [start EXCEPT ![t] = PubsDone]
    /\ RmwActive(t, EntryOrder(cell))
    /\ UNCHANGED <<finished_reads, values, inactive_reads, locked>>
    /\ UNCHANGED <<cell, strong, poisoned>>
    /\ UNCHANGED <<got, holds, spins, arg, active_reads>>
    /\ UNCHANGED <<fresh, given, pubs, touched, kept, flipped_at>>
    /\ UNCHANGED <<rel, sc, mview, fhist, vhist, lastread>>

\* get: let ptr = *self.arcs[slot].get();
OrdGetRead(t) ==
    /\ pc[t] = "get_read"
    /\ \E i \in 1..Len(vhist[Top(t)]) :
          /\ SlotRead(t, Top(t), i)
          /\ got' = [got EXCEPT ![t] = vhist[Top(t)][i]]
    /\ pc' = [pc EXCEPT ![t] = "get_clone"]
    /\ UNCHANGED shared
    /\ UNCHANGED <<frames, holds, spins, arg, active_reads>>
    /\ UNCHANGED ghost
    /\ UNCHANGED <<acq, rel, sc, mview, raview, fhist, vhist>>

\* get: forget(arc.clone()): the Arc that was in the slot is used
OrdGetClone(t) ==
    /\ pc[t] = "get_clone"
    /\ strong' = [strong EXCEPT ![got[t][1]] = @ + 1]
    /\ SlotUse(t, Top(t))
    /\ pc' = [pc EXCEPT ![t] = "get_finish"]
    /\ UNCHANGED <<cell, reads_active, finished_reads, values, inactive_reads, locked, poisoned>>
    /\ UNCHANGED <<frames, got, holds, spins, arg, active_reads>>
    /\ UNCHANGED ghost
    /\ UNCHANGED <<acq, rel, sc, mview, raview, fhist, vhist>>

\* get: self.finished_reads[slot].fetch_add(2, Release);
OrdGetFinish(t) ==
    /\ pc[t] = "get_finish"
    /\ finished_reads' = [finished_reads EXCEPT ![Top(t)] = WrapAdd(@, 2)]
    /\ RmwFinished(t, Top(t), ExitOrder(cell))
    /\ frames' = [frames EXCEPT ![t] = <<>>]
    /\ pc' = [pc EXCEPT ![t] = "get_ret"]
    /\ UNCHANGED <<reads_active, values, inactive_reads, locked>>
    /\ UNCHANGED <<cell, strong, poisoned>>
    /\ UNCHANGED <<got, holds, spins, arg, active_reads>>
    /\ UNCHANGED ghost
    /\ UNCHANGED <<rel, sc, mview, raview, vhist, lastread>>

\* set: let mut lock = self.prev_reads.lock().unwrap();
OrdArcLock(t) ==
    /\ pc[t] = "aset_lock"
    /\ MutexFree
    /\ LockResult = "Ok"
    /\ locked' = TRUE
    /\ cur' = [cur EXCEPT ![t] = Join(@, mview)]
    /\ pc' = [pc EXCEPT ![t] = "aset_check"]
    /\ UNCHANGED <<reads_active, finished_reads, values, inactive_reads>>
    /\ UNCHANGED <<cell, strong, poisoned>>
    /\ UNCHANGED <<frames, got, holds, spins, arg, active_reads>>
    /\ UNCHANGED ghost
    /\ UNCHANGED <<acq, rel, sc, mview, raview, fhist, vhist, lastread>>

\* set: self.finished_reads[next_active].load(Acquire) != prev_reads, the
\* first load and every load of the while loop
OrdArcCheck(t) ==
    /\ pc[t] \in {"aset_check", "aset_wait"}
    /\ \E i \in Readable(t, Bit0(inactive_reads)) :
          /\ cur' = [cur EXCEPT ![t] = Loaded(t, Bit0(inactive_reads), i, CheckOrder(cell))]
          /\ acq' = [acq EXCEPT ![t] = Join(@, fhist[Bit0(inactive_reads)][i])]
          /\ pc' = [pc EXCEPT ![t] =
                      IF FinishedAt(Bit0(inactive_reads), i) = inactive_reads
                      THEN "aset_write" ELSE "aset_wait"]
    /\ UNCHANGED shared
    /\ UNCHANGED <<frames, got, holds, spins, arg, active_reads>>
    /\ UNCHANGED ghost
    /\ UNCHANGED <<rel, sc, mview, raview, fhist, vhist, lastread>>

\* set: let prevx2_ptr = *slot; *slot = Arc::into_raw(arc);
OrdArcWrite(t) ==
    /\ pc[t] = "aset_write"
    /\ values' = [values EXCEPT ![Bit0(inactive_reads)] = arg[t]]
    /\ SlotWrite(t, Bit0(inactive_reads), arg[t])
    /\ arg' = [arg EXCEPT ![t] = values[Bit0(inactive_reads)]]
    /\ pc' = [pc EXCEPT ![t] = "aset_swap"]
    /\ UNCHANGED <<reads_active, finished_reads, inactive_reads, locked>>
    /\ UNCHANGED <<cell, strong, poisoned>>
    /\ UNCHANGED <<frames, got, holds, spins, active_reads>>
    /\ UNCHANGED ghost
    /\ UNCHANGED <<acq, rel, sc, mview, raview, fhist, lastread>>

\* set: let current_reads = self.reads_current.swap(prev_reads, Release);
OrdArcSwap(t) ==
    /\ pc[t] = "aset_swap"
    /\ active_reads' = [active_reads EXCEPT ![t] = reads_active]
    /\ reads_active' = inactive_reads
    /\ RmwActive(t, SwapOrder(cell))
    /\ pubs' = Append(pubs, [val |-> values[Bit0(inactive_reads)], set |-> given[t]])
    /\ flipped_at' = reads_active
    /\ pc' = [pc EXCEPT ![t] = "aset_store"]
    /\ UNCHANGED <<finished_reads, values, inactive_reads, locked>>
    /\ UNCHANGED <<cell, strong, poisoned>>
    /\ UNCHANGED <<frames, got, holds, spins, arg>>
    /\ UNCHANGED <<fresh, start, given, todo, touched, kept>>
    /\ UNCHANGED <<rel, sc, mview, fhist, vhist, lastread>>

\* set: *lock = current_reads; drop(lock);
OrdArcStore(t) ==
    /\ pc[t] = "aset_store"
    /\ inactive_reads' = active_reads[t]
    /\ locked' = FALSE
    /\ mview' = cur[t]
    /\ active_reads' = [active_reads EXCEPT ![t] = 0]
    /\ given' = [given EXCEPT ![t] = <<>>]
    /\ pc' = [pc EXCEPT ![t] = "aset_drop"]
    /\ UNCHANGED <<reads_active, finished_reads, values>>
    /\ UNCHANGED <<cell, strong, poisoned>>
    /\ UNCHANGED <<frames, got, holds, spins, arg>>
    /\ UNCHANGED <<fresh, start, todo, pubs, touched, kept, flipped_at>>
    /\ UNCHANGED <<cur, acq, rel, sc, raview, fhist, vhist, lastread>>

\* Two threads share a PairLock or an ArcCell and call view / get and set.
NextOrdered ==
    \/ \E t \in Threads : OrdViewEnter(t)
    \/ \E t \in Threads : OrdViewRead(t)
    \/ \E t \in Threads : OrdExitFence(t)
    \/ \E t \in Threads : OrdViewExit(t)
    \/ \E t \in Threads : Set(t)
    \/ \E t \in Threads : OrdLock(t)
    \/ \E t \in Threads : OrdCheck(t)
    \/ \E t \in Threads : OrdCheckFence(t)
    \/ \E t \in Threads : OrdReplace(t)
    \/ \E t \in Threads : OrdDropFence(t)
    \/ \E t \in Threads : OrdSwap(t)
    \/ \E t \in Threads : OrdStore(t)
    \/ \E t \in Threads : Return(t)
    \/ \E t \in Threads : OrdGet(t)
    \/ \E t \in Threads : OrdGetRead(t)
    \/ \E t \in Threads : OrdGetClone(t)
    \/ \E t \in Threads : OrdGetFinish(t)
    \/ \E t \in Threads : ArcDropHandle(t)
    \/ \E t \in Threads : ArcSet(t)
    \/ \E t \in Threads : OrdArcLock(t)
    \/ \E t \in Threads : OrdArcCheck(t)
    \/ \E t \in Threads : OrdArcWrite(t)
    \/ \E t \in Threads : OrdArcSwap(t)
    \/ \E t \in Threads : OrdArcStore(t)
    \/ \E t \in Threads : ArcDropPrev(t)

SpecOrdered == Init /\ [][NextOrdered]_vars

\* ================================================================ claims
\* Values that a reader may legitimately see: every value that was active,
\* from publication `from` on (publication 2 is the constructor's active
\* value; entry 1 of the history, the constructor's inactive value, was
\* never active).
ActiveSince(from) == {pubs[n].val : n \in from..Len(pubs)}

\* A writer that has passed the drain check and has not yet flipped or
\* cancelled: it holds an UpdateGuard, or is in ArcCell::set after its wait.
Owns(t) ==
    \/ holds[t] /\ pc[t] \notin Storing
    \/ pc[t] \in {"aset_write", "aset_swap"}
Reading(s) == \E u \in Threads : \E i \in 1..Len(frames[u]) : frames[u][i] = s

\* C1: reader safety.  Whatever the interleaving of readers with writers
\* that store a value field by field, a completed read holds a whole value
\* (both fields of one write) that was the constructor's active value or
\* was made active by a flip; never a torn one.  An Arc that ArcCell::get
\* is about to clone or has returned was active and is still allocated.
C1_ReaderSafety ==
    \A t \in Threads :
        /\ pc[t] = "viewed" =>
            /\ got[t] = Whole(got[t][1])
            /\ got[t] \in ActiveSince(2)
        /\ pc[t] \in {"get_clone", "get_finish", "get_ret"} =>
            /\ got[t] \in ActiveSince(2)
            /\ strong[got[t][1]] > 0

\* a read that overlapped a field-by-field write and returned a value that
\* a flip (not the constructor) had made active
C1_Witness ==
    \E t, w \in Threads :
        /\ pc[t] = "viewed"
        /\ pc[w] \in {"write2", "replace2"}
        /\ Len(pubs) >= 3
        /\ got[t] = pubs[3].val
        /\ got[t] # pubs[2].val

\* C2: reader/writer exclusion on a slot.  While a writer owns the inactive
\* slot I (drain check passed, no flip or cancel yet) no reader holds a
\* reservation on I, and every reader that enters meanwhile is bound to the
\* other slot.
C2_NoReaderInOwnedSlot ==
    \A t \in Threads : Owns(t) => ~Reading(GuardSlot)

C2_EntrantsTakeOtherSlot ==
    \A t, u \in Threads :
        (Owns(t) /\ Len(frames'[u]) > Len(frames[u]))
            => frames'[u][Len(frames'[u])] # GuardSlot

C2_Exclusion == []C2_NoReaderInOwnedSlot /\ [][C2_EntrantsTakeOtherSlot]_vars

\* a reader inside its view of the active slot while a writer is halfway
\* through a write to the other slot
C2_Witness ==
    \E t, u \in Threads :
        /\ Owns(t)
        /\ pc[t] \in {"write2", "replace2"}
        /\ frames[u] # <<>>
        /\ start[u] = Len(pubs)
        /\ pc[u] = "view"

\* C3: publication visibility.  A read that starts after a publication has
\* returned yields the value of that publication or of a later one, never
\* an earlier value.
C3_PublicationVisible ==
    \A t \in Threads :
        pc[t] \in {"viewed", "get_ret"} => got[t] \in ActiveSince(start[t])

\* a read started after the second publication returned, yielding its value
C3_Witness ==
    \E t \in Threads :
        /\ pc[t] = "viewed"
        /\ start[t] = 4
        /\ got[t] = pubs[4].val
        /\ got[t] \notin {pubs[2].val, pubs[3].val}

\* C4: wait-free readers.  A read is one fetch-add of 2 on the active
\* counter, a read of the selected slot and one fetch-add of 2 on that
\* slot's finished counter; no step of it is disabled by the mutex, by a
\* writer in its drain wait or by other readers, so a scheduled reader
\* completes even if a writer keeps the mutex forever.
C4_NeverDisabled ==
    \A t \in Threads :
        /\ (pc[t] = "idle" /\ Len(frames[t]) < MaxNest
                /\ Outstanding + 1 < 2 ^ (Width - 1))
            => /\ cell = "PairLock" => ENABLED ViewEnter(t)
               /\ cell = "ArcCell" => ENABLED ArcGet(t)
        /\ pc[t] = "view" => ENABLED ViewRead(t)
        /\ (pc[t] \in {"idle", "viewed"} /\ frames[t] # <<>>) => ENABLED ViewExit(t)
        /\ pc[t] = "get_read" => ENABLED ArcRead(t)
        /\ pc[t] = "get_clone" => ENABLED ArcClone(t)
        /\ pc[t] = "get_finish" => ENABLED ArcFinish(t)

C4_ThreeSteps ==
    \A t \in Threads :
        /\ Len(frames'[t]) > Len(frames[t]) =>
            /\ reads_active' = WrapAdd(reads_active, 2)
            /\ UNCHANGED <<finished_reads, values, inactive_reads, locked>>
        /\ (pc[t] \in {"view", "get_read"} /\ got'[t] # got[t]) =>
            UNCHANGED <<reads_active, finished_reads, values, inactive_reads, locked>>
        /\ Len(frames'[t]) < Len(frames[t]) =>
            /\ finished_reads' = [finished_reads EXCEPT ![Top(t)] = WrapAdd(@, 2)]
            /\ UNCHANGED <<reads_active, values, inactive_reads, locked>>

C4_Completes ==
    \A t \in Threads :
        /\ pc[t] = "view" ~> pc[t] = "viewed"
        /\ pc[t] = "get_read" ~> pc[t] = "get_ret"

C4_WaitFree == []C4_NeverDisabled /\ [][C4_ThreeSteps]_vars /\ C4_Completes

\* a view has read its slot while a writer that holds the mutex has failed
\* the drain check and is waiting
C4_Witness ==
    \E t, w \in Threads :
        /\ locked
        /\ pc[t] = "viewed"
        /\ pc[w] \in {"upd_spin", "set_spin"}
        /\ spins[w] > 0

\* C5: single writer at a time.  At most one thread is inside the writer
\* critical section (it holds an UpdateGuard, or is between locking and
\* unlocking in ArcCell::set), and that thread has the mutex; every flip of
\* the active slot and every store to the drain target is made by that
\* thread, and between a writer's swap and its store no other thread flips
\* or stores.
InArcSet(t) == pc[t] \in {"aset_check", "aset_wait", "aset_write", "aset_swap", "aset_store"}
Writing(t) == holds[t] \/ InArcSet(t)

C5_OneWriter ==
    /\ Cardinality({t \in Threads : Writing(t)}) <= 1
    /\ \A t \in Threads : Writing(t) => locked

C5_FlipsInOrder ==
    /\ Bit0(reads_active') # Bit0(reads_active) =>
        \E t \in Threads : Writing(t) /\ pc[t] \notin Storing /\ pc'[t] \in Storing
    /\ inactive_reads' # inactive_reads =>
        \E t \in Threads : pc[t] \in Storing /\ pc'[t] \notin Storing /\ ~Writing(t)'
    /\ \A t \in Threads :
        (pc[t] \in Storing /\ pc'[t] = pc[t]) =>
            /\ Bit0(reads_active') = Bit0(reads_active)
            /\ inactive_reads' = inactive_reads

C5_SingleWriter == []C5_OneWriter /\ [][C5_FlipsInOrder]_vars

\* a writer between its swap and its store while another thread is waiting
\* for the mutex
C5_Witness ==
    \E t, u \in Threads :
        /\ pc[t] \in Storing
        /\ pc[u] \in {"upd_lock", "set_lock", "aset_lock"}

\* C6: try_update never waits and its outcome is decided by the state.  It
\* returns OtherUpdate exactly when the mutex is locked at the call, by any
\* thread's guard including the caller's own; otherwise it returns
\* InactiveReads if the finished counter of the inactive slot differs from
\* the drain target and a guard if they are equal.
C6_NeverWaits ==
    \A t \in Threads :
        /\ (pc[t] = "idle" /\ cell = "PairLock" /\ Room) => ENABLED TryUpdate(t)
        /\ pc[t] = "try_check" => ENABLED TryCheck(t)

C6_Outcome ==
    \A t \in Threads :
        /\ (pc[t] = "idle" /\ pc'[t] = "OtherUpdate") => locked /\ UNCHANGED holds
        /\ (pc[t] = "idle" /\ pc'[t] = "try_check") => ~locked
        /\ (pc[t] = "try_check" /\ pc'[t] # pc[t]) =>
            IF finished_reads[inactive_reads % 2] = inactive_reads
            THEN pc'[t] = "idle" /\ ~holds[t] /\ holds'[t]
            ELSE pc'[t] = "InactiveReads" /\ UNCHANGED holds
        /\ pc'[t] = "OtherUpdate" => pc[t] \in {"idle", "OtherUpdate"}
        /\ pc'[t] = "InactiveReads" => pc[t] \in {"try_check", "InactiveReads"}

C6_TryUpdate == []C6_NeverWaits /\ [][C6_Outcome]_vars

\* try_update has returned OtherUpdate to a thread that holds the guard
\* itself, as in tests::singlethreaded_locking
C6_Witness == \E t \in Threads : holds[t] /\ pc[t] = "OtherUpdate"

\* C7: a failed try_update changes nothing.  Its steps leave the active
\* counter, both finished counters, the drain target and both values as
\* they are; OtherUpdate leaves the mutex as it is, and InactiveReads is
\* returned with the mutex unlocked, so that whenever the mutex is locked
\* some thread really has it and a following try_update is not refused on
\* account of the failed one.
HasMutex(t) == holds[t] \/ InArcSet(t) \/ pc[t] \in {"upd_spin", "set_spin", "try_check"}

C7_Unlocked == locked => \E u \in Threads : HasMutex(u)

C7_Frame ==
    \A t \in Threads :
        /\ (pc[t] = "idle" /\ pc'[t] \in {"try_check", "OtherUpdate"}) =>
            UNCHANGED <<reads_active, finished_reads, inactive_reads, values>>
        /\ (pc[t] = "idle" /\ pc'[t] = "OtherUpdate") => UNCHANGED locked
        /\ (pc[t] = "try_check" /\ pc'[t] = "InactiveReads") =>
            /\ UNCHANGED <<reads_active, finished_reads, inactive_reads, values>>
            /\ ~locked'

C7_FailureChangesNothing == []C7_Unlocked /\ [][C7_Frame]_vars

\* after one thread's try_update returned InactiveReads, another thread's
\* try_update has taken the mutex
C7_Witness ==
    \E t, u \in Threads : pc[t] = "InactiveReads" /\ ~holds[t] /\ pc[u] = "try_check"

\* C8: set(v) returns the value that was in the inactive slot when the
\* writer obtained it.  Unless a cancelled guard wrote to the slot since the
\* last flip, that is the value that was active before the most recent
\* flip (the constructor's inactive value if there was no flip yet), not the
\* value that is active during the call; it is returned unchanged.
C8_Displaced ==
    \A t \in Threads :
        /\ (pc[t] = "set_drop" /\ ~touched) => arg[t] = pubs[Len(pubs) - 1].val
        /\ (pc[t] = "set_store" /\ ~touched) =>
            /\ arg[t] = pubs[Len(pubs) - 2].val
            /\ pubs[Len(pubs)].val = given[t]

C8_Returned ==
    \A t \in Threads :
        (pc[t] \in {"set_drop", "set_store"} /\ pc'[t] \in {"set_store", "set_ret"})
            => arg'[t] = arg[t]

C8_SetReturnsInactive == []C8_Displaced /\ [][C8_Returned]_vars

\* a set that, after two flips, is about to return the value of the first
\* flip although the value of the second was active throughout the call
C8_Witness ==
    \E t \in Threads :
        /\ pc[t] = "set_store"
        /\ ~touched
        /\ Len(pubs) = 5
        /\ arg[t] = pubs[3].val
        /\ arg[t] # pubs[4].val

\* C9: the basic round trip of one thread.  From PairLock::new(a, b), view
\* returns a; update() gives a guard that dereferences to b; after c is
\* written through the guard and the guard is dropped view returns c; then
\* set(d) returns a, the value that the flip displaced, and view returns d.
\* With new(1, 0), c = 2 and d = 4: set(4) returns 1.
Calls == Len(todo[1])

C9_BasicRoundTrip ==
    /\ (pc[1] = "viewed" /\ Calls = 9) => got[1] = pubs[2].val
    /\ (holds[1] /\ pc[1] = "idle" /\ Calls = 7) => deref = pubs[1].val
    /\ (pc[1] = "viewed" /\ Calls = 4) =>
        /\ got[1] = pubs[3].val
        /\ pubs[3].set = pubs[3].val
    /\ pc[1] = "set_ret" => arg[1] = pubs[2].val
    /\ (pc[1] = "viewed" /\ Calls = 1) =>
        /\ got[1] = pubs[4].val
        /\ pubs[4].set = pubs[4].val

\* The round trip as stated for new(1, 0), c = 2, d = 4: set(4) returns 2.
C9_AsStated ==
    (/\ pc[1] = "set_ret"
     /\ pubs[1].val = Whole(0)
     /\ pubs[2].val = Whole(1)
     /\ pubs[3].val = Whole(2)
     /\ pubs[4].val = Whole(4))
        => arg[1] = Whole(2)

\* set(4) is about to return 1 in the round trip with new(1, 0), 2 and 4
C9_Witness ==
    /\ pc[1] = "set_ret"
    /\ Calls = 2
    /\ <<pubs[1].val, pubs[2].val, pubs[3].set, pubs[4].set>>
        = <<Whole(0), Whole(1), Whole(2), Whole(4)>>
    /\ arg[1] = Whole(1)

\* C10: set/get round trip.  A read that starts after a publication has
\* returned, with no publication since, returns the value that was handed
\* to set (for an ArcCell the very allocation), and so do all such reads;
\* no step of a reader changes either value or which slot is active.
Latest == pubs[Len(pubs)]
ReadDone(t) == pc[t] \in {"viewed", "get_ret"} /\ start[t] = Len(pubs)

C10_RoundTrip ==
    /\ \A t \in Threads : ReadDone(t) => got[t] = Latest.val
    /\ \A n \in 1..Len(pubs) : pubs[n].set # <<>> => pubs[n].val = pubs[n].set

C10_ReaderStep(t) ==
    \/ Len(frames'[t]) # Len(frames[t])
    \/ got'[t] # got[t]
    \/ pc[t] = "get_clone" /\ pc'[t] = "get_finish"

C10_ReadsChangeNothing ==
    \A t \in Threads :
        C10_ReaderStep(t) =>
            /\ values' = values
            /\ Bit0(reads_active') = Bit0(reads_active)
            /\ inactive_reads' = inactive_reads

C10_SetGet == []C10_RoundTrip /\ [][C10_ReadsChangeNothing]_vars

\* two reads, both started after the latest set returned, have both
\* returned the value handed to that set
C10_Witness ==
    \E t, u \in Threads :
        /\ t # u
        /\ ReadDone(t) /\ ReadDone(u)
        /\ Len(pubs) >= 4
        /\ Latest.set # <<>>
        /\ got[t] = Latest.set /\ got[u] = Latest.set
        /\ got[t] # pubs[Len(pubs) - 1].val

\* C11: dropping an UpdateGuard that was never written through still
\* publishes.  The flip leaves both slots' contents as they are, makes the
\* slot that was inactive the active one and the slot that was active the
\* inactive one; from new(1, 0) with no write at all, update and drop make a
\* view return 0.
C11_Flip ==
    \A t \in Threads :
        /\ (holds[t] /\ pc[t] = "idle" /\ pc'[t] = "drop_store") =>
            /\ values' = values
            /\ Bit0(reads_active') = Bit0(inactive_reads)
            /\ Bit0(reads_active') # Bit0(reads_active)
            /\ values'[Bit0(reads_active')] = deref
        /\ (pc[t] = "drop_store" /\ pc'[t] = "idle") =>
            /\ values' = values
            /\ Bit0(inactive_reads') # Bit0(reads_active)
            /\ Bit0(inactive_reads') # Bit0(inactive_reads)
            /\ ~locked'

C11_Unwritten ==
    \A t \in Threads :
        (pc[t] = "viewed" /\ fresh = 2 /\ start[t] = Len(pubs)) =>
            got[t] = IF Len(pubs) % 2 = 1 THEN pubs[1].val ELSE pubs[2].val

C11_DropPublishes == []C11_Unwritten /\ [][C11_Flip]_vars

\* nothing was ever written, one guard was dropped, and a view that started
\* afterwards has returned the constructor's inactive value
C11_Witness ==
    \E t \in Threads :
        /\ pc[t] = "viewed"
        /\ fresh = 2
        /\ Len(pubs) = 3
        /\ start[t] = 3
        /\ got[t] = pubs[1].val
        /\ got[t] # pubs[2].val

\* C12: cancel releases the mutex without publishing.  The step changes
\* neither the active counter, the drain target, a finished counter nor a
\* value, and leaves the mutex unlocked; what was written through the
\* cancelled guard stays in the inactive slot: the next guard dereferences to
\* it and the next set returns it.
C12_CancelStep ==
    \A t \in Threads :
        (holds[t] /\ ~holds'[t] /\ pc[t] = "idle") =>
            /\ UNCHANGED <<reads_active, inactive_reads, finished_reads, values>>
            /\ ~locked'
            /\ pc'[t] = "idle"

C12_Kept ==
    \A t \in Threads :
        kept # <<>> =>
            /\ (holds[t] /\ pc[t] = "idle") => deref = kept
            /\ pc[t] = "set_drop" => arg[t] = kept
            /\ (pc[t] = "viewed" /\ start[t] = Len(pubs)) => got[t] # kept

C12_Cancel == []C12_Kept /\ [][C12_CancelStep]_vars

\* after a guard that was written through was cancelled, a set is about to
\* return the value written, which no flip ever made active
C12_Witness ==
    \E t \in Threads :
        /\ pc[t] = "set_drop"
        /\ kept # <<>>
        /\ arg[t] = kept
        /\ \A n \in 1..Len(pubs) : pubs[n].val # kept

\* C13: a writer waits only for readers of the inactive slot.  The drain
\* check of a writer that has the mutex succeeds exactly when no reader has
\* a reservation on the inactive slot, whatever reservations there are on
\* the active one (the writer's own included); a reader that is still in its
\* view when a flip happens has its reservation on the slot that is now
\* inactive, and try_update returns InactiveReads until it exits.
C13_DrainExact ==
    \A t \in Threads :
        (HasMutex(t) /\ pc[t] \notin Storing) =>
            (finished_reads[inactive_reads % 2] = inactive_reads
                <=> ~Reading(inactive_reads % 2))

C13_Outcome ==
    \A t \in Threads :
        /\ (pc[t] = "try_check" /\ pc'[t] # pc[t]) =>
            (pc'[t] = "InactiveReads" <=> Reading(inactive_reads % 2))
        /\ (pc[t] \in {"upd_spin", "set_spin"} /\ <<pc[t], spins[t]>> # <<pc'[t], spins'[t]>>) =>
            (holds'[t] <=> ~Reading(inactive_reads % 2))
        /\ (pc[t] \in {"aset_check", "aset_wait"} /\ pc'[t] # pc[t]) =>
            (pc'[t] = "aset_write" <=> ~Reading(inactive_reads % 2))

Waiting(t) ==
    pc[t] \in {"upd_lock", "upd_spin", "set_lock", "set_spin",
               "aset_lock", "aset_check", "aset_wait"}
Blocking(t) == \E i \in 1..Len(frames[t]) : frames[t][i] = inactive_reads % 2

C14_Progress ==
    \A w \in Threads :
        (/\ [](\A u \in Threads \ {w} : ~HasMutex(u))
         /\ \A u \in Threads : []<>~Blocking(u))
            => ((Waiting(w) /\ ~holds[w]) ~> ~Waiting(w))

C14_EntrantsAside ==
    \A u \in Threads :
        ((\A t \in Threads : pc[t] \notin Storing) /\ Len(frames'[u]) > Len(frames[u])) =>
            /\ frames'[u][Len(frames'[u])] # inactive_reads % 2
            /\ UNCHANGED <<finished_reads, inactive_reads>>

C14_WriterProgress == C14_Progress /\ [][C14_EntrantsAside]_vars

\* a writer has failed the drain check, the reader it waits for is still in
\* its view, and another view of the active slot has begun meanwhile
C14_Witness ==
    \E w, u \in Threads :
        /\ pc[w] \in {"upd_spin", "set_spin"}
        /\ spins[w] > 0
        /\ Blocking(u)
        /\ w # u

\* C15: counter wraparound.  The counters are taken modulo 2^Width and
\* start so that they wrap within the first reads.  With fewer than
\* 2^(Width-1) reservations outstanding, the count of views that entered a
\* slot minus its finished counter is, modulo 2^Width, twice the number of
\* reservations on the slot, also across a wrap; so equality means drained
\* and a writer never owns a slot with a reader in it.  Adding 2 never
\* changes bit 0.
Reservations(s) ==
    LET RECURSIVE Count(_)
        Count(S) == IF S = {} THEN 0
                    ELSE LET t == CHOOSE x \in S : TRUE
                         IN Cardinality({i \in 1..Len(frames[t]) : frames[t][i] = s})
                            + Count(S \ {t})
    IN Count(Threads)

\* the active counter as it was when slot s stopped taking readers, or as it
\* is if s is the active slot
Entered(s) ==
    IF reads_active % 2 = s THEN reads_active
    ELSE IF \E t \in Threads : pc[t] \in Storing
         THEN active_reads[CHOOSE t \in Threads : pc[t] \in Storing]
         ELSE inactive_reads

C15_Counting ==
    /\ \A s \in Slots :
        /\ (Entered(s) - finished_reads[s]) % (2 ^ Width) = 2 * Reservations(s)
        /\ 2 * Reservations(s) < 2 ^ Width
        /\ Entered(s) % 2 = s
    /\ \A t \in Threads : Owns(t) => Reservations(inactive_reads % 2) = 0
    /\ \A x \in 0..(2 ^ Width - 1) : WrapAdd(x, 2) % 2 = x % 2 /\ WrapAdd(x, 2) < 2 ^ Width

C15_Steps ==
    /\ reads_active' % 2 # reads_active % 2 => reads_active' = inactive_reads
    /\ \A s \in Slots : finished_reads'[s] % 2 = finished_reads[s] % 2

C15_Wraparound == []C15_Counting /\ [][C15_Steps]_vars

\* a guard is held on slot 1 of a PairLock, whose counter has wrapped past
\* all-ones and passed the drain check since, while a view is open on slot
\* 0, whose active counter has wrapped and its finished counter not yet
C15_Witness ==
    \E t, u \in Threads :
        /\ cell = "PairLock"
        /\ holds[t] /\ pc[t] = "idle"
        /\ inactive_reads \in {1, 3}
        /\ frames[u] = <<0>>
        /\ reads_active < finished_reads[0]

\* C16: reference-count balance.  Whatever gets, sets and drops are made on
\* a cell built by new, with_clone or ArcCell::new, the strong count of
\* every object is the number of its owners: slots of the live cell, calls
\* that carry it, and handles returned by get; so an object is destroyed
\* when its last owner lets go and not before, it is never destroyed twice or
\* used afterwards, and dropping the cell leaves every object alive that a
\* handle points to.
InSlots(o) ==
    IF cell = "gone" THEN 0 ELSE Cardinality({s \in Slots : values[s][1] = o})
InCalls(o) ==
    Cardinality({t \in Threads : arg[t] # <<>> /\ pc[t] # "write2" /\ arg[t][1] = o})
InHandles(o) ==
    Cardinality({t \in Threads :
        pc[t] \in {"cloned", "get_finish", "get_ret"} /\ got[t][1] = o})

C16_Balance ==
    /\ \A o \in DOMAIN strong : strong[o] = InSlots(o) + InCalls(o) + InHandles(o)
    /\ cell # "gone" => \A s \in Slots : values[s][1] \in DOMAIN strong
    /\ \A t \in Threads : pc[t] \in {"viewed", "get_clone"} => strong[got[t][1]] > 0

C16_Once ==
    /\ \A o \in DOMAIN strong :
        strong[o] = 0 => o \in DOMAIN strong' /\ strong'[o] = 0
    /\ cell' # cell =>
        \A t \in Threads : pc[t] = "get_ret" => strong'[got[t][1]] > 0

C16_RefCounts == []C16_Balance /\ [][C16_Once]_vars

\* the cell was dropped after a set; one object has been destroyed and a
\* handle from get keeps another alive on its own
C16_Witness ==
    \E t \in Threads : \E o \in DOMAIN strong :
        /\ cell = "gone"
        /\ pc[t] = "get_ret"
        /\ strong[got[t][1]] = 1
        /\ strong[o] = 0
        /\ Len(pubs) >= 3

\* C17: unwind safety of readers.  When the closure of a view panics, the
\* unwinding runs Releaser::drop: the step that takes the view off the
\* panicking thread's stack adds 2 to the finished counter of the view's
\* slot, no other step of the unwinding changes a finished counter, and the
\* thread is not done unwinding before every view is released.  So the
\* reservation is gone: if it was the last on its slot the finished counter
\* equals the count of entries, and a writer that has the mutex for that
\* slot passes its drain check.
C17_Once ==
    \A t \in Threads :
        /\ (pc[t] = "unwinding" /\ frames'[t] # frames[t]) =>
            /\ frames[t] # <<>>
            /\ frames'[t] = SubSeq(frames[t], 1, Len(frames[t]) - 1)
            /\ finished_reads' = [finished_reads EXCEPT ![Top(t)] = (@ + 2) % (2 ^ Width)]
        /\ (pc[t] \in {"unwinding", "unwind_store"} /\ frames' = frames) =>
            finished_reads' = finished_reads
        /\ (pc[t] \notin {"unwinding", "unwind_store"} /\ pc'[t] = "unwinding") =>
            /\ frames' = frames
            /\ finished_reads' = finished_reads
        /\ (pc[t] = "unwinding" /\ pc'[t] = "idle") => frames[t] = <<>>

C17_Drains ==
    \A t \in Threads :
        (/\ pc[t] = "unwinding"
         /\ frames'[t] # frames[t]
         /\ Reservations(Top(t)) = 1
         /\ \A w \in Threads : pc[w] \notin Storing) =>
            /\ finished_reads'[Top(t)] = Entered(Top(t))
            /\ Top(t) = inactive_reads % 2 =>
                finished_reads'[inactive_reads' % 2] = inactive_reads'

C17_UnwindSafety == [][C17_Once /\ C17_Drains]_vars

\* a thread whose view panicked has unwound it, and a writer that had
\* failed drain checks meanwhile now has the mutex and a drained slot
C17_Witness ==
    \E t, w \in Threads :
        /\ pc[t] = "unwinding"
        /\ frames[t] = <<>>
        /\ ~holds[t]
        /\ pc[w] \in {"upd_spin", "set_spin"}
        /\ spins[w] > 0
        /\ frames[w] = <<>>
        /\ finished_reads[inactive_reads % 2] = inactive_reads

\* C18: no poisoning.  A thread that panics while it has an UpdateGuard
\* drops the guard while unwinding: the flip and the store of the drain
\* target happen as at a normal drop and the mutex is unlocked, though
\* poisoned.  From then on lock() and try_lock() still give the guard
\* whenever the mutex is free: update, try_update and set can be called
\* (by a client free to make any call),
\* try_update returns OtherUpdate only when the mutex is locked, a waiting
\* thread can lock a free mutex, and (under the conditions of writer
\* progress: the other threads end up leaving the mutex alone and readers
\* of the inactive slot leave) a thread that waits in update or set on a
\* poisoned mutex gets its turn.
C18_Released ==
    \A t \in Threads :
        /\ (pc[t] = "unwinding" /\ pc'[t] = "unwind_store") =>
            /\ holds[t]
            /\ reads_active' = inactive_reads
            /\ pubs' = Append(pubs, [val |-> values[inactive_reads % 2], set |-> given[t]])
        /\ (pc[t] = "unwind_store" /\ pc'[t] # pc[t]) =>
            /\ ~locked'
            /\ ~holds'[t]
            /\ inactive_reads' = active_reads[t]
            /\ inactive_reads' % 2 # reads_active' % 2
        /\ (poisoned /\ pc[t] = "idle" /\ pc'[t] = "OtherUpdate") => locked
        /\ (poisoned /\ pc[t] = "idle" /\ pc'[t] = "try_check") => ~locked /\ locked'

C18_Usable ==
    poisoned =>
        /\ cell # "ArcCell"
        /\ \A t \in Threads :
            /\ pc[t] \in {"upd_lock", "set_lock"} => (ENABLED Lock(t) <=> ~locked)
            /\ (pc[t] = "idle" /\ cell = "PairLock" /\ Room /\ Head(todo[t]) = AnyCall) =>
                /\ ENABLED Update(t)
                /\ ENABLED TryUpdate(t)
                /\ Payable(t) => ENABLED Set(t)

C18_NoBlock ==
    \A w \in Threads :
        (/\ <>[](\A u \in Threads \ {w} : ~HasMutex(u))
         /\ \A u \in Threads : []<>~Blocking(u))
            => ((poisoned /\ Waiting(w) /\ ~holds[w]) ~> ~Waiting(w))

C18_NoPoisoning == []C18_Usable /\ [][C18_Released]_vars /\ C18_NoBlock

\* a thread panicked with a guard and is still unwinding; set, called by
\* another thread, has locked the poisoned mutex since and has its guard
C18_Witness ==
    \E t, w \in Threads :
        /\ poisoned
        /\ pc[t] = "unwinding"
        /\ holds[w]
        /\ pc[w] = "replace"

\* C19: the exclusive helpers agree with the protocol.  Called with
\* exclusive access, get_mut_both and into_inner return the same pair; its
\* first component is the value a view would read now (the slot named by
\* bit 0 of reads_active) and is the value of the last publication, or the
\* constructor's active value if there was none; its second component is
\* the value the next UpdateGuard dereferences to (the slot named by bit 0
\* of the mutex's datum) and, unless a guard wrote to that slot and was
\* cancelled, it is the value that was active before the last publication.
\* So into_inner(new(a, b)) = (a, b), and (c, a) after one publication of c.
Unpublished == ~touched /\ kept = <<>>

C19_Pair ==
    \A t \in Threads :
        Exclusive(t) =>
            /\ get_mut_both = into_inner
            /\ into_inner[1] = values[reads_active % 2]
            /\ into_inner[1] = Latest.val
            /\ into_inner[2] = deref
            /\ into_inner[2] = values[inactive_reads % 2]
            /\ Unpublished => into_inner = <<pubs[Len(pubs)].val, pubs[Len(pubs) - 1].val>>
            /\ (Len(pubs) = 2 /\ Unpublished) => into_inner = <<pubs[2].val, pubs[1].val>>
            /\ (Len(pubs) = 3 /\ Unpublished) => into_inner = <<pubs[3].val, pubs[2].val>>
            /\ (Len(pubs) = 3 /\ pubs[3].set # <<>>) => into_inner[1] = pubs[3].set

C19_Returned ==
    \A t \in Threads :
        /\ (pc[t] = "idle" /\ pc'[t] = "both_ret") =>
            /\ got'[t] = <<Latest.val, deref>>
            /\ UNCHANGED shared
        /\ (pc[t] = "idle" /\ pc'[t] = "inner_ret") =>
            /\ got'[t] = <<Latest.val, deref>>
            /\ cell' = "gone"

C19_ExclusiveHelpers == []C19_Pair /\ [][C19_Returned]_vars

\* into_inner has returned (c, a) after the one publication, of a c that
\* set was called with, from new(a, b) with a # b
C19_Witness ==
    \E t \in Threads :
        /\ pc[t] = "inner_ret"
        /\ Len(pubs) = 3
        /\ pubs[3].set # <<>>
        /\ pubs[1].val # pubs[2].val
        /\ got[t] = <<pubs[3].set, pubs[2].val>>

\* C20: the guard's view of the two slots.  While a thread has an
\* UpdateGuard (until its drop flips or cancel gives it up),
\* UpdateGuard::active and the second component of both are the value in
\* the slot named by bit 0 of reads_active, which is the slot of every open
\* view and of every view that enters, and the value of the last
\* publication; deref and the first component of both are the other slot.
\* No step taken while the guard is held and kept changes bit 0 of
\* reads_active or the value in the active slot.
C20_Sides ==
    \A t \in Threads :
        (holds[t] /\ pc[t] \notin Storing) =>
            /\ active = values[reads_active % 2]
            /\ active = Latest.val
            /\ deref = values[1 - (reads_active % 2)]
            /\ both = <<values[1 - (reads_active % 2)], values[reads_active % 2]>>
            /\ \A u \in Threads : \A i \in 1..Len(frames[u]) :
                values[frames[u][i]] = active /\ frames[u][i] # GuardSlot

C20_Stable ==
    \A t \in Threads :
        (holds[t] /\ pc[t] \notin Storing /\ holds'[t] /\ pc'[t] \notin Storing) =>
            /\ reads_active' % 2 = reads_active % 2
            /\ values'[reads_active % 2] = values[reads_active % 2]
            /\ active' = active
            /\ \A u \in Threads :
                Len(frames'[u]) > Len(frames[u]) =>
                    values[frames'[u][Len(frames'[u])]] = active

C20_GuardSides == []C20_Sides /\ [][C20_Stable]_vars

\* a guard is held whose slot has been written to, while another thread
\* has read, in a view that began after the guard was taken, the value
\* that UpdateGuard::active gives, published by an earlier flip
C20_Witness ==
    \E t, u \in Threads :
        /\ holds[t]
        /\ pc[t] = "idle"
        /\ touched
        /\ kept # <<>>
        /\ Len(pubs) = 3
        /\ pc[u] = "viewed"
        /\ got[u] = active
        /\ active = pubs[3].val
        /\ deref = kept
        /\ deref # active

\* C21: meaning of the drain target.  Whenever the mutex is free, its datum
\* is what the active counter was at the flip that made the now inactive
\* slot inactive (the constructor's value before the first flip), and the
\* finished counter of the inactive slot I equals it exactly when no
\* reservation on I is outstanding.  The history of that counter value
\* changes only in the step that flips bit 0 of the active counter, which
\* is a step of a thread that holds the mutex.
C21_Target ==
    ~locked =>
        /\ inactive_reads = flipped_at
        /\ \A I \in Slots :
            I # reads_active % 2 =>
                (finished_reads[I] = inactive_reads <=> Reservations(I) = 0)

C21_Deactivation ==
    /\ reads_active' % 2 # reads_active % 2 =>
        /\ flipped_at' = reads_active
        /\ locked /\ locked'
    /\ reads_active' % 2 = reads_active % 2 => flipped_at' = flipped_at

C21_DrainTarget == []C21_Target /\ [][C21_Deactivation]_vars

\* the mutex is free after a flip that happened while a view was open; the
\* datum is the counter of that moment, which counts the view, and the
\* finished counter of the inactive slot has not reached it
C21_Witness ==
    \E t \in Threads :
        /\ ~locked
        /\ Len(pubs) >= 3
        /\ frames[t] = <<1 - (reads_active % 2)>>
        /\ inactive_reads = flipped_at
        /\ inactive_reads \notin {AllOnes, 1}
        /\ finished_reads[inactive_reads % 2] # inactive_reads

\* C22: slot-bit invariant.  Whenever the mutex is free, bit 0 of its datum
\* is the complement of bit 0 of the active counter.  A step in which a
\* reader enters or leaves (a view, or ArcCell::get) leaves bit 0 of the
\* active counter, of both finished counters and of the datum as it was.
\* A guard drop, and an ArcCell::set, toggles bit 0 of the active counter
\* exactly once: in its swap, and in no other of its steps, so that the bit
\* after it is the complement of the bit before.
C22_Complement ==
    ~locked => inactive_reads % 2 = 1 - (reads_active % 2)

C22_ReadersKeepBits ==
    \A t \in Threads :
        frames'[t] # frames[t] =>
            /\ reads_active' % 2 = reads_active % 2
            /\ inactive_reads' % 2 = inactive_reads % 2
            /\ \A s \in Slots : finished_reads'[s] % 2 = finished_reads[s] % 2
            /\ reads_active' # reads_active \/ finished_reads' # finished_reads

C22_OneToggle ==
    \A t \in Threads :
        /\ (pc[t] \notin Storing /\ pc'[t] \in Storing) =>
            reads_active' % 2 = 1 - (reads_active % 2)
        /\ (pc[t] \in Storing /\ pc'[t] # pc[t]) =>
            /\ reads_active' = reads_active
            /\ inactive_reads' % 2 = 1 - (reads_active % 2)
            /\ ~locked'
        /\ reads_active' % 2 # reads_active % 2 =>
            \E w \in Threads : pc[w] \notin Storing /\ pc'[w] \in Storing
        /\ (pc[t] = "aset_lock" /\ pc'[t] = "aset_check") => Len(pubs') = Len(pubs)
        /\ (pc[t] \in {"aset_check", "aset_wait", "aset_write"} /\ pc'[t] # pc[t]) =>
            reads_active' % 2 = reads_active % 2

C22_SlotBit == []C22_Complement /\ [][C22_ReadersKeepBits /\ C22_OneToggle]_vars

\* after two flips the mutex is free, the active counter is even again
\* and has wrapped, the datum is odd, and a reader is inside a view
C22_Witness ==
    \E t \in Threads :
        /\ ~locked
        /\ Len(pubs) = 4
        /\ frames[t] # <<>>
        /\ reads_active % 2 = 0
        /\ inactive_reads % 2 = 1
        /\ inactive_reads # AllOnes

\* C23: counter accounting.  Outside the two steps of a flip, the active
\* counter minus the finished counter of the active slot A is, modulo
\* 2^Width, twice the number of reservations outstanding on A, and the
\* drain target minus the finished counter of the inactive slot I is twice
\* the number outstanding on I.  Every entry, a view inside a view
\* included, is one +2 on the active counter that reserves the slot named
\* by the counter's bit 0 and touches no finished counter; every exit is
\* one +2 on the finished counter of the slot that was entered and touches
\* nothing else; no other step changes a finished counter.
C23_Balance ==
    (\A t \in Threads : pc[t] \notin Storing) =>
        LET A == reads_active % 2
            I == 1 - A
        IN /\ (reads_active - finished_reads[A]) % (2 ^ Width) = 2 * Reservations(A)
           /\ (inactive_reads - finished_reads[I]) % (2 ^ Width) = 2 * Reservations(I)
           /\ Reservations(A) + Reservations(I) = Outstanding

C23_Contributions ==
    \A t \in Threads :
        /\ Len(frames'[t]) > Len(frames[t]) =>
            /\ frames'[t] = Append(frames[t], reads_active % 2)
            /\ reads_active' = (reads_active + 2) % (2 ^ Width)
            /\ finished_reads' = finished_reads
            /\ inactive_reads' = inactive_reads
        /\ Len(frames'[t]) < Len(frames[t]) =>
            /\ frames[t] = Append(frames'[t], Top(t))
            /\ finished_reads' =
                [finished_reads EXCEPT ![Top(t)] = (@ + 2) % (2 ^ Width)]
            /\ reads_active' = reads_active
            /\ inactive_reads' = inactive_reads
        /\ Len(frames'[t]) = Len(frames[t]) => frames'[t] = frames[t]
        /\ frames' = frames => finished_reads' = finished_reads

C23_Accounting == []C23_Balance /\ [][C23_Contributions]_vars

\* a thread has a view open inside a view: the outer one began before a
\* flip and has its reservation on the inactive slot, the inner one on the
\* active slot
C23_Witness ==
    \E t \in Threads :
        /\ Len(frames[t]) = 2
        /\ frames[t][1] = 1 - (reads_active % 2)
        /\ frames[t][2] = reads_active % 2
        /\ Len(pubs) >= 3
        /\ \A u \in Threads : pc[u] \notin Storing
        /\ (inactive_reads - finished_reads[frames[t][1]]) % (2 ^ Width) = 2

\* C24: the drain wait and the mutex.  In PairLock::update and set a writer
\* yields only after MAX_UPDATE_SPINS failed checks in one holding of the
\* mutex, and the step that ends the round unlocks it; while it is between
\* rounds the mutex is free or another thread's; every check, also after
\* locking again, compares with the datum as it is then.  ArcCell::set is
\* different: it keeps the mutex locked from its lock() to its store, also
\* while it yields in its wait, and the datum cannot change meanwhile.
Yielded(t) ==
    \/ pc[t] \in {"upd_lock", "set_lock"} /\ ~holds[t]
    \/ pc[t] = "aset_wait"
OthersMutex(t) == \E u \in Threads \ {t} : HasMutex(u)

C24_Mutex ==
    \A t \in Threads :
        /\ (pc[t] \in {"upd_lock", "set_lock"} /\ ~holds[t]) => (locked => OthersMutex(t))
        /\ pc[t] \in {"upd_spin", "set_spin"} => locked /\ ~OthersMutex(t)
        /\ pc[t] \in {"aset_check", "aset_wait", "aset_write", "aset_swap", "aset_store"} =>
            locked /\ ~OthersMutex(t)

C24_Rounds ==
    \A t \in Threads :
        /\ (pc[t] \in {"upd_spin", "set_spin"} /\ pc'[t] \in {"upd_lock", "set_lock"}) =>
            /\ spins[t] = MAX_UPDATE_SPINS - 1
            /\ finished_reads[inactive_reads % 2] # inactive_reads
            /\ ~locked'
            /\ spins'[t] = 0
        /\ (pc[t] \in {"upd_spin", "set_spin"} /\ spins'[t] = spins[t] + 1) =>
            /\ finished_reads[inactive_reads % 2] # inactive_reads
            /\ spins'[t] < MAX_UPDATE_SPINS
            /\ locked'
        /\ (pc[t] \in {"upd_spin", "set_spin"} /\ holds'[t] /\ ~holds[t]) =>
            /\ finished_reads[inactive_reads % 2] = inactive_reads
            /\ locked'
        /\ (pc[t] \in {"upd_lock", "set_lock"} /\ pc'[t] # pc[t]) =>
            ~locked /\ locked' /\ spins'[t] = 0
        /\ (pc[t] \in {"aset_check", "aset_wait"} /\ pc'[t] # pc[t]) =>
            /\ locked'
            /\ pc'[t] = "aset_write" <=> finished_reads[inactive_reads % 2] = inactive_reads
        /\ pc[t] \in {"aset_check", "aset_wait", "aset_write", "aset_swap"} =>
            inactive_reads' = inactive_reads

C24_DrainWait == []C24_Mutex /\ [][C24_Rounds]_vars

\* the claim as stated: no writer that is yielded in its drain wait, of
\* either type, has the mutex
C24_AsStated == \A t \in Threads : Yielded(t) => (locked => OthersMutex(t))

\* ArcCell::set yields in its wait with the mutex locked, while the reader
\* it waits for is in get and another set waits for the mutex
C24_Witness ==
    \E t, u \in Threads :
        /\ pc[t] = "aset_wait"
        /\ locked
        /\ ~OthersMutex(t)
        /\ finished_reads[inactive_reads % 2] # inactive_reads
        /\ frames[u] = <<inactive_reads % 2>>

\* C25: update() or set() called inside the caller's own view.  The call
\* waits forever when the caller has a guard of its own, and also when one
\* of its open views has its reservation on the inactive slot (a flip has
\* happened since that view began): the drain check then waits for a view
\* that cannot end before the call returns.  In every other case, the other
\* threads leaving the mutex alone and giving up their reservations on the
\* inactive slot, the call gets the slot.
InView(t) == cell = "PairLock" /\ frames[t] # <<>>
OthersBehave(w) ==
    /\ [](\A u \in Threads \ {w} : ~HasMutex(u))
    /\ \A u \in Threads \ {w} : []<>~Blocking(u)

C25_Returns ==
    \A w \in Threads :
        OthersBehave(w) =>
            ((Waiting(w) /\ InView(w) /\ ~holds[w] /\ ~Blocking(w)) ~> ~Waiting(w))

C25_Stuck ==
    \A w \in Threads :
        (/\ Waiting(w) /\ InView(w)
         /\ \/ holds[w]
            \/ Blocking(w) /\ \A t \in Threads : pc[t] \notin Storing) =>
            /\ Waiting(w)'
            /\ frames'[w] = frames[w]
            /\ holds'[w] = holds[w]
            /\ holds[w] \/ Blocking(w)'

Pending(u) == cell = "ArcCell" /\ pc[u] \in {"get_clone", "get_finish"}

C26_SlotKeeps ==
    \A u \in Threads :
        /\ Pending(u) =>
            /\ frames[u] # <<>>
            /\ values[Top(u)] = got[u]
            /\ strong[got[u][1]] >= (IF pc[u] = "get_finish" THEN 2 ELSE 1)
        /\ (cell = "ArcCell" /\ pc[u] \in {"aset_swap", "aset_store", "aset_drop"}) =>
            /\ strong[arg[u][1]] >= 1
            /\ \A r \in Threads :
                (pc[r] = "get_clone" /\ got[r] = arg[u]) => values[Top(r)] = arg[u]

C26_Order ==
    \A u \in Threads :
        /\ (pc[u] = "get_clone" /\ pc'[u] # pc[u]) =>
            /\ strong[got[u][1]] >= 1
            /\ strong'[got[u][1]] = strong[got[u][1]] + 1
            /\ pc'[u] = "get_finish"
            /\ UNCHANGED <<finished_reads, frames>>
        /\ (cell = "ArcCell" /\ Len(frames'[u]) < Len(frames[u])) =>
            /\ pc[u] = "get_finish"
            /\ finished_reads'[Top(u)] = WrapAdd(finished_reads[Top(u)], 2)
            /\ UNCHANGED strong
        /\ (cell = "ArcCell" /\ finished_reads' # finished_reads) =>
            \E r \in Threads : pc[r] = "get_finish" /\ pc'[r] = "get_ret"
        /\ (pc[u] = "aset_write" /\ pc'[u] # pc[u]) =>
            /\ Reservations(Bit0(inactive_reads)) = 0
            /\ arg'[u] = values[Bit0(inactive_reads)]
            /\ UNCHANGED strong
        /\ (pc[u] = "aset_drop" /\ pc'[u] # pc[u]) =>
            /\ strong'[arg[u][1]] = strong[arg[u][1]] - 1
            /\ ~locked \/ \E w \in Threads \ {u} : HasMutex(w)
            /\ \A r \in Threads :
                (Pending(r) /\ got[r] = arg[u]) => strong'[got[r][1]] >= 1

C26_NoUseAfterFree == []C26_SlotKeeps /\ [][C26_Order]_vars

\* a get has read the pointer of the slot that a set waits to overwrite and
\* has not yet incremented the count, which only the slot keeps at 1
C26_Witness ==
    \E t, u \in Threads :
        /\ pc[t] = "aset_wait"
        /\ pc[u] = "get_clone"
        /\ Top(u) = Bit0(inactive_reads)
        /\ strong[got[u][1]] = 1
        /\ Len(pubs) >= 2

\* C27: the constructed state.  Right after construction reads_active is an
\* even constant k and finished_reads[0] equals k; finished_reads[1] and
\* the datum of the mutex are equal and odd, so slot 1 is the inactive slot
\* and is drained.  In ArcCell they are k + 1, which is k XOR 1, for
\* k = !0 << 2 (debug build) and k = 0; in PairLock k = 0 and they are !0,
\* which is not k XOR 1.
Xor1(x) == IF x % 2 = 0 THEN x + 1 ELSE x - 1

C27_Construction ==
    Init =>
        /\ reads_active % 2 = 0
        /\ finished_reads[0] = reads_active
        /\ finished_reads[1] = inactive_reads
        /\ inactive_reads % 2 = 1
        /\ check_inactive(inactive_reads)
        /\ cell = "ArcCell" =>
            /\ reads_active \in {(AllOnes * 4) % Modulus, 0}
            /\ inactive_reads = Xor1(reads_active)
        /\ cell = "PairLock" =>
            /\ reads_active = 0
            /\ inactive_reads = AllOnes
            /\ inactive_reads # Xor1(reads_active)

\* the claim as stated: finished_reads[1] and the datum are k XOR 1 in both
C27_AsStated ==
    Init =>
        /\ reads_active % 2 = 0
        /\ finished_reads[0] = reads_active
        /\ finished_reads[1] = Xor1(reads_active)
        /\ inactive_reads = Xor1(reads_active)

\* a PairLock as new leaves it, its second counter at all-ones
C27_Witness ==
    /\ Init
    /\ cell = "PairLock"
    /\ finished_reads[0] = 0 /\ finished_reads[1] = AllOnes
    /\ inactive_reads = AllOnes
    /\ AllOnes > 1

\* C28: ArcCell and PairLock<Arc<T>> are one protocol.  Protocol is the
\* transition relation of get and set written once, over what both types
\* have in common: the active bit, the pointers in the slots, the counts,
\* each thread's reservation, the handle it has read, the Arc its set
\* carries, and how far the call has come.  Every step of either type is a
\* step of Protocol or changes nothing of this; and whatever Protocol can do
\* next either type can do: at once, or, for a set that takes the slot, by
\* locking the mutex and passing the drain check.  A state of one type and a
\* state of the other with the same Common therefore stay related step by
\* step, the gets return the same handles in both, and the counters, which
\* Common leaves out, differ by the constants they start from.
None == 0 - 1
Phase(t) ==
    CASE pc[t] = "idle" -> "idle"
      [] pc[t] \in {"view", "get_read"} -> "entered"
      [] pc[t] \in {"viewed", "get_clone"} -> "read"
      [] pc[t] \in {"cloned", "get_finish"} -> "cloned"
      [] pc[t] = "get_ret" -> "returned"
      [] pc[t] \in {"set_lock", "set_spin", "aset_lock", "aset_check", "aset_wait"} -> "waiting"
      [] pc[t] \in {"replace", "aset_write"} -> "acquired"
      [] pc[t] \in {"replace2", "set_drop", "aset_swap"} -> "written"
      [] pc[t] \in {"set_store", "aset_store"} -> "flipped"
      [] pc[t] \in {"set_ret", "aset_drop"} -> "stored"
      [] OTHER -> "other"
Common ==
    [bit |-> Bit0(reads_active),
     vals |-> [s \in Slots |-> values[s][1]],
     strong |-> strong,
     phase |-> [t \in Threads |-> Phase(t)],
     resv |-> frames,
     handle |-> [t \in Threads |->
                    IF Phase(t) \in {"read", "cloned", "returned"} THEN got[t][1] ELSE None],
     carry |-> [t \in Threads |->
                    IF Phase(t) \in {"waiting", "acquired", "written", "flipped", "stored"}
                    THEN arg[t][1] ELSE None],
     pubs |-> [i \in 1..Len(pubs) |-> pubs[i].val[1]]]

Critical == {"acquired", "written", "flipped"}
MayAcquire(a, t) ==
    /\ \A u \in Threads : \A i \in 1..Len(a.resv[u]) : a.resv[u][i] # 1 - a.bit
    /\ \A u \in Threads \ {t} : a.phase[u] \notin Critical

Protocol(a, b) ==
    \E t \in Threads :
        \/ /\ a.phase[t] = "idle"
           /\ b = [a EXCEPT !.phase[t] = "entered", !.resv[t] = <<a.bit>>]
        \/ /\ a.phase[t] = "entered"
           /\ b = [a EXCEPT !.phase[t] = "read", !.handle[t] = a.vals[a.resv[t][1]]]
        \/ /\ a.phase[t] = "read"
           /\ a.strong[a.handle[t]] >= 1
           /\ b = [a EXCEPT !.phase[t] = "cloned", !.strong[a.handle[t]] = @ + 1]
        \/ /\ a.phase[t] = "cloned"
           /\ b = [a EXCEPT !.phase[t] = "returned", !.resv[t] = <<>>]
        \/ /\ a.phase[t] = "returned"
           /\ b = [a EXCEPT !.phase[t] = "idle", !.strong[a.handle[t]] = @ - 1,
                            !.handle[t] = None]
        \/ /\ a.phase[t] = "idle"
           /\ b.carry[t] \notin DOMAIN a.strong
           /\ b = [a EXCEPT !.phase[t] = "waiting", !.carry[t] = b.carry[t],
                            !.strong = (b.carry[t] :> 1) @@ a.strong]
        \/ /\ a.phase[t] = "waiting"
           /\ MayAcquire(a, t)
           /\ b = [a EXCEPT !.phase[t] = "acquired"]
        \/ /\ a.phase[t] = "acquired"
           /\ b = [a EXCEPT !.phase[t] = "written", !.vals[1 - a.bit] = a.carry[t],
                            !.carry[t] = a.vals[1 - a.bit]]
        \/ /\ a.phase[t] = "written"
           /\ b = [a EXCEPT !.phase[t] = "flipped", !.bit = 1 - a.bit,
                            !.pubs = Append(a.pubs, a.vals[1 - a.bit])]
        \/ /\ a.phase[t] = "flipped"
           /\ b = [a EXCEPT !.phase[t] = "stored"]
        \/ /\ a.phase[t] = "stored"
           /\ b = [a EXCEPT !.phase[t] = "idle", !.strong[a.carry[t]] = @ - 1,
                            !.carry[t] = None]

C28_Follows == Protocol(Common, Common') \/ Common' = Common

\* the first state of both types
Common0 ==
    [bit |-> 0, vals |-> [s \in Slots |-> 1], strong |-> (1 :> 2),
     phase |-> [t \in Threads |-> "idle"], resv |-> [t \in Threads |-> <<>>],
     handle |-> [t \in Threads |-> None], carry |-> [t \in Threads |-> None],
     pubs |-> <<1, 1>>]

\* no waiting writer has the mutex
Unlocked == \A u \in Threads : pc[u] \notin {"set_spin", "aset_check", "aset_wait"}

C28_Realised ==
    /\ InitArcs => Common = Common0
    /\ \A t \in Threads :
        /\ Phase(t) # "other"
        /\ Phase(t) = "idle" => ENABLED (ViewEnter(t) \/ ArcGet(t))
        /\ (Phase(t) = "idle" /\ Room /\ fresh <= MaxVal) => ENABLED (Set(t) \/ ArcSet(t))
        /\ Phase(t) = "entered" => ENABLED (ViewRead(t) \/ ArcRead(t))
        /\ Phase(t) = "read" =>
            ENABLED ((GetClone(t) \/ ArcClone(t)) /\ Phase(t)' = "cloned")
        /\ Phase(t) = "cloned" =>
            ENABLED ((ViewExit(t) \/ ArcFinish(t)) /\ Phase(t)' = "returned")
        /\ Phase(t) = "returned" => ENABLED ArcDropHandle(t)
        /\ (Phase(t) = "waiting" /\ MayAcquire(Common, t) /\ Unlocked) =>
            ENABLED ((Lock(t) \/ ArcLock(t)) /\ Phase(t)' = "waiting")
        /\ (pc[t] \in {"set_spin", "aset_check", "aset_wait"} /\ MayAcquire(Common, t)) =>
            ENABLED ((Spin(t) \/ ArcCheck(t) \/ ArcWait(t)) /\ Phase(t)' = "acquired")
        /\ Phase(t) = "acquired" =>
            ENABLED ((ReplaceField(t) \/ ArcWrite(t)) /\ Phase(t)' = "written")
        /\ Phase(t) = "written" => ENABLED (ReplaceField(t) \/ DropSwap(t) \/ ArcSwap(t))
        /\ pc[t] \in {"set_drop", "aset_swap"} =>
            ENABLED ((DropSwap(t) \/ ArcSwap(t)) /\ Phase(t)' = "flipped")
        /\ Phase(t) = "flipped" =>
            ENABLED ((DropStore(t) \/ ArcStore(t)) /\ Phase(t)' = "stored")
        /\ Phase(t) = "stored" =>
            ENABLED ((Return(t) \/ ArcDropPrev(t)) /\ Phase(t)' = "idle")

\* the counters move with the protocol's steps in the same way in both
\* types, so they differ between the types by what they started from
Stepped(t, from, to) == Phase(t) = from /\ Phase(t)' = to
C28_Counters ==
    LET counters == <<reads_active, finished_reads, inactive_reads>>
    IN \A t \in Threads :
        /\ Stepped(t, "idle", "entered") =>
            /\ reads_active' = WrapAdd(reads_active, 2)
            /\ UNCHANGED <<finished_reads, inactive_reads>>
        /\ Stepped(t, "cloned", "returned") =>
            /\ finished_reads' = [finished_reads EXCEPT ![Top(t)] = WrapAdd(@, 2)]
            /\ UNCHANGED <<reads_active, inactive_reads>>
        /\ Stepped(t, "written", "flipped") =>
            /\ reads_active' = inactive_reads
            /\ flipped_at' = reads_active
            /\ UNCHANGED <<finished_reads, inactive_reads>>
        /\ Stepped(t, "flipped", "stored") =>
            /\ inactive_reads' = flipped_at
            /\ UNCHANGED <<finished_reads, reads_active>>
        /\ (Phase(t)' # Phase(t) /\ <<Phase(t), Phase(t)'>> \notin
                {<<"idle", "entered">>, <<"cloned", "returned">>,
                 <<"written", "flipped">>, <<"flipped", "stored">>}) =>
            counters' = counters
        /\ Common' = Common => counters' = counters

C28_SameProtocol == []C28_Realised /\ [][C28_Follows /\ C28_Counters]_vars

\* in a PairLock a set is at the last check of a round, after which it gives
\* the mutex up, which no ArcCell does, while the get it waits for has its
\* handle and its reservation
C28_Witness ==
    \E t, r \in Threads :
        /\ cell = "PairLock"
        /\ pc[t] = "set_spin" /\ spins[t] = MAX_UPDATE_SPINS - 1
        /\ Phase(r) = "cloned"
        /\ ~MayAcquire(Common, t)
        /\ Common.pubs = <<1, 1, 2>>

\* C29: a panicking writer still publishes.  A thread that unwinds with an
\* UpdateGuard cannot finish unwinding with it: its one step with the guard
\* is the swap of UpdateGuard::drop, which makes the guard's slot the active
\* one with whatever the slot holds then, written or not.  Views that begin
\* from then on reserve that slot and read that value.  A guard is given up
\* without a flip only by cancel, which a thread that unwinds cannot call.
Last(seq) == seq[Len(seq)]

C29_Unwinding ==
    \A t \in Threads :
        /\ (pc[t] = "unwinding" /\ holds[t] /\ <<pc[t], holds[t]>>' # <<pc[t], holds[t]>>) =>
            /\ pc'[t] = "unwind_store" /\ holds'[t] /\ locked'
            /\ Bit0(reads_active') = GuardSlot
            /\ Bit0(reads_active') # Bit0(reads_active)
            /\ values' = values
            /\ Last(pubs') = [val |-> deref, set |-> given[t]]
            /\ Len(pubs') = Len(pubs) + 1
        /\ (holds[t] /\ ~holds'[t]) =>
            \/ pc[t] \in Storing /\ Bit0(reads_active) = GuardSlot /\ Bit0(reads_active) # GuardSlot'
            \/ /\ pc[t] = "idle" /\ pc'[t] = "idle"
               /\ UNCHANGED <<reads_active, inactive_reads, values, pubs>>
        /\ (pc[t] = "unwinding" /\ pc'[t] = "idle") => ~holds[t]
        /\ \A u \in Threads :
            (pc[t] \in {"unwind_store", "unwinding"} /\ ~(pc[t] = "unwinding" /\ holds[t])
             /\ poisoned' /\ Len(frames'[u]) > Len(frames[u])) =>
                values[Top(u)'] = Last(pubs).val

C29_Published ==
    \A t \in Threads :
        /\ pc[t] = "unwind_store" =>
            /\ holds[t] /\ locked
            /\ values[Bit0(reads_active)] = Last(pubs).val
            /\ Last(pubs).set \in {<<>>, Last(pubs).val}
        /\ \A u \in Threads :
            (pc[u] = "viewed" /\ start[u] = Len(pubs) /\ pc[t] \notin Storing) =>
                got[u] = Last(pubs).val

C29_PanicPublishes == []C29_Published /\ [][C29_Unwinding]_vars

\* a thread wrote through its guard and panicked; it has unwound, the mutex
\* is poisoned, and a view that began afterwards has read the value it wrote
C29_Witness ==
    \E t, u \in Threads :
        /\ pc[t] = "unwinding" /\ ~holds[t] /\ poisoned
        /\ pc[u] = "viewed" /\ start[u] = Len(pubs)
        /\ got[u] = Last(pubs).val
        /\ Last(pubs).set = got[u]
        /\ Len(pubs) = 3

\* C30: monotonic reads.  Publications are numbered by their place in the
\* order of the flips.  A view in progress is on the active slot, then what
\* it returns is the latest publication, or on the slot that one flip since
\* its entry has made inactive, then it is the one before; this number does
\* not change while the view lasts and is the latest at its entry.  So once
\* a thread has a read of publication n, every read it begins from then on
\* is of publication n or a later one; of the views a thread has open inside
\* each other, the inner ones, which began later, are of no earlier one.
InRead(t) == frames[t] # <<>>
FrameOf(t, i) == IF frames[t][i] = Bit0(reads_active) THEN Len(pubs) ELSE Len(pubs) - 1
ReadOf(t) == FrameOf(t, Len(frames[t]))
HasValue(t) ==
    /\ InRead(t)
    /\ pc[t] \in {"viewed", "cloned", "get_clone", "get_finish"}
\* numbers 1 and 2 are the constructor's values: no read is of an earlier one
Numbers == 3..(MaxPubs + 2)
Depths == 1..MaxNest

C30_Returns ==
    \A t \in Threads :
        /\ \A i \in 1..Len(frames[t]) : FrameOf(t, i) \in 2..Len(pubs)
        /\ \A i, j \in 1..Len(frames[t]) : i < j => FrameOf(t, i) <= FrameOf(t, j)
        /\ HasValue(t) => got[t] = pubs[ReadOf(t)].val

C30_Kept ==
    \A t \in Threads :
        /\ Len(pubs') >= Len(pubs)
        /\ \A i \in 1..Len(frames[t]) :
            Len(frames'[t]) >= i => FrameOf(t, i)' = FrameOf(t, i)
        /\ Len(frames'[t]) > Len(frames[t]) => ReadOf(t)' = Len(pubs')

C30_Later ==
    \A t \in Threads : \A n \in Numbers : \A i \in Depths :
        []((Len(frames[t]) >= i /\ FrameOf(t, i) = n)
            => [](Len(frames[t]) >= i => FrameOf(t, i) >= n))

C30_MonotonicReads == []C30_Returns /\ [][C30_Kept]_vars /\ C30_Later

\* a view of the latest publication, begun after the thread's earlier view
\* was overtaken by a flip; another flip has overtaken this one too
C30_Witness ==
    \E t \in Threads :
        /\ HasValue(t)
        /\ ReadOf(t) = Len(pubs) - 1
        /\ Len(pubs) = MaxPubs + 2
        /\ got[t] # pubs[Len(pubs)].val
        /\ got[t] # pubs[2].val

\* C31: memory ordering.  With the Orderings of the source, a writer that
\* has found the slot drained (PairLock: the Relaxed load and the fence of
\* check_inactive; ArcCell: the Acquire load of set) has every read that
\* any thread made of that slot happening-before it, so no read of the old
\* value is ordered after the writer's observation; no reader is left on
\* that slot; and a reader that has entered reads the newest value written
\* to its slot and no other.  PairLock has SeqCst on the entry and
\* fence(SeqCst) before a Relaxed add on the exit, which is option (b) with
\* a stronger entry and not option (a); ArcCell has Acquire on the entry
\* and Release on the exit with no fence, which is neither (a) nor (b).
Drained31 == {"replace", "set_drop", "set_swap", "aset_write", "aset_swap"}
Entered31 == {"view", "get_read"}
HasRead31 == {"viewed", "exit_add", "get_clone", "get_finish"}

\* the options of the specification for the two counter updates
OptionA(c) == EntryOrder(c) = "SeqCst" /\ ExitOrder(c) = "SeqCst"
OptionB(c) ==
    /\ EntryOrder(c) = "Acquire"
    /\ ExitFence(c) = "SeqCst"
    /\ ExitOrder(c) = "Relaxed"

C31_ReadsBefore ==
    \A w \in Threads :
        pc[w] \in Drained31 =>
            \A u \in Threads :
                /\ lastread[GuardSlot][u] <= cur[w].r[u]
                /\ \A i \in 1..Len(frames[u]) : frames[u][i] # GuardSlot

C31_SeesWrite ==
    \A u \in Threads :
        /\ pc[u] \in Entered31 => cur[u].v[Top(u)] = Len(vhist[Top(u)])
        /\ pc[u] \in HasRead31 => got[u] = values[Top(u)]

C31_Options ==
    /\ cell = "PairLock" =>
          /\ EntryOrder(cell) = "SeqCst"
          /\ ExitFence(cell) = "SeqCst"
          /\ ExitOrder(cell) = "Relaxed"
          /\ ~OptionA(cell)
    /\ cell = "ArcCell" =>
          /\ EntryOrder(cell) = "Acquire"
          /\ ExitFence(cell) = "none"
          /\ ExitOrder(cell) = "Release"
          /\ ~OptionA(cell)
          /\ ~OptionB(cell)

====
